---- MODULE Spec2Model ----
(***************************************************************************)
(* Verification model of the Envoy discovery service of istio/manager      *)
(* (proxy/envoy/discovery.go): the three URL-keyed response caches, the    *)
(* SDS/CDS/RDS request handlers, the cache-statistics admin routes and the *)
(* controller handlers that flush the caches.                              *)
(*                                                                         *)
(* Atomicity.  A step of the model is one critical section of the code:    *)
(* cachedDiscoveryResponse runs under mu.RLock, updateCachedDiscovery-     *)
(* Response and clear under mu.Lock.  A request handler that misses the    *)
(* cache is two steps (lookup + recompute, then store); the recompute is   *)
(* joined to the lookup because a lookup that misses changes nothing, so   *)
(* every step another goroutine takes between the two commutes with the    *)
(* lookup.  clearCache and ClearCacheStats are three steps each, one per   *)
(* cache, because each cache has its own lock.                             *)
(***************************************************************************)
EXTENDS Integers, Sequences, FiniteSets, TLC

VARIABLES
    ds,         \* the DiscoveryService: its sdsCache, cdsCache and rdsCache
    services,   \* registry: hostnames of the services that exist
    instances,  \* registry: indices (into AllInstances) of the instances that exist
    config,     \* rule store: the config kinds for which a rule exists
    pc,         \* per request goroutine: "idle", or "store" after a miss
    req,        \* per request goroutine: the URL being served
    out,        \* per request goroutine: the bytes computed on a miss
    resp,       \* the response written by the last step, if it wrote one
    pending,    \* controller: number of events whose handler it has yet to call
    hpc,        \* clearCache: number of caches the running handler has cleared
    spc,        \* ClearCacheStats: number of caches the running call has reset
    nops,       \* number of operations issued so far: requests, registry
                \* changes and POST /cache_stats_delete
    sched,      \* how the environment issues operations: "seq", each one
                \* after the previous one has returned, or "conc", overlapping
    \* history variables, kept under "seq" only (tally, reads) and read by
    \* the properties only
    changed,    \* the registry or the rule store has changed since the start
    tally,      \* per URL: 200 responses served from cache / recomputed and
                \* stored, since the last reset of that URL's cache
    reads,      \* per URL: 200 responses since the last handler returned
    clearedIn,  \* the caches cleared by the running (or last) handler
    denied,     \* the URLs that have been answered with an error so far
    \* one discoveryCache seen statement by statement (see the section
    \* "One discoveryCache under its RWMutex")
    mu,         \* c.mu: the goroutine holding the write lock, those holding read locks
    entries,    \* c.cache: key -> entry
    at,         \* per caller: the statement it is at
    call,       \* per caller: the method it is in and its arguments
    ret,        \* per caller: what its last cachedDiscoveryResponse returned
    passed,     \* the (key, data) pairs passed to updateCachedDiscoveryResponse so far
    ncalls,     \* number of method calls made so far
    report,     \* per caller: the map its stats call is building, the hit
                \* counter it has loaded for the entry at hand, and the
                \* counters there were when it took the lock (history)
    \* the watcher, its controller and its agent (see the section "The
    \* watcher and its agent")
    wreg,       \* what the watcher's context holds: the input of Generate
    wpc,        \* watcher.Run: "new", "running" (inside w.ctl.Run) or "returned"
    cpc,        \* controller: "new", "idle" (inside Run) or "returned"
    ngen,       \* number of calls of Generate so far
    ev,         \* the last event the controller took up and what it has caused
    nev,        \* number of events so far
    stop,       \* the stop channel is closed
    mailbox,    \* agent: the config update waiting for the agent, if any
    apc,        \* agent.Run: "new", "launched", "Idle", "write", "exec",
                \* "Backoff" or "Stopped"
    desired,    \* agent: the config it wants running
    accepted,   \* agent: the config of the last child it started
    epoch,      \* agent: the restart epoch of the next child
    attempts,   \* agent: failed spawns of the desired config so far
    delay,      \* agent: the delay of the last backoff for the desired config
    children,   \* the Envoy processes running: epoch -> command line
    files,      \* the file system under ConfigPath: file name -> content
    env,        \* what the platform does to a spawn: "ok", "fail" or "any"
    \* history variables of the watcher, read by the properties only
    submitted,  \* what was passed to ScheduleConfigUpdate, in order, each
                \* with what the agent was spawning at that moment, if it
                \* was, or with "poisoned" if it had given its config up
    launched,   \* the children started so far, in order
    retries,    \* the retries made for the desired config so far
    removed,    \* how the last cleanup hook went: "none", "removed" or "failed"
    \* the validators of package model (see the section "Validation")
    vrev,       \* the revision of the validators that is built
    vmsg,       \* the message handed to a validator
    vfn,        \* the validator that was called, if one was
    verrs,      \* the errors it returned: empty for a nil error
    vpanic,     \* it did not return: it panicked
    \* the constructors NewDiscoveryService and NewWatcher (see the section
    \* "Construction")
    handlers,   \* controller: the handlers appended so far, in order
    building,   \* per constructor: the registrations it has made and what
                \* it returned, if it has
    \* one call of the function runEnvoy returns (see the section "runEnvoy")
    run         \* its arguments, the statement it is at, the child it
                \* started and the error it returned

\* the discovery service and its environment
svars == << ds, services, instances, config, pc, req, out, resp, pending, hpc,
            spc, nops, changed, tally, reads, clearedIn, denied >>

\* the single cache
cvars == << mu, entries, at, call, ret, passed, ncalls, report >>

\* the watcher, its controller, its agent and what they run on
wvars == << wreg, wpc, cpc, ngen, ev, nev, stop, mailbox, apc, desired,
            accepted, epoch, attempts, delay, children, files, env, submitted,
            launched, retries, removed >>

\* the validators and their input
valvars == << vrev, vmsg, vfn, verrs, vpanic >>

\* the constructors, and one call of runEnvoy
nvars == << handlers, building >>

vars == << svars, cvars, wvars, valvars, nvars, run, sched >>

\* a step of the discovery service leaves the single cache and the watcher
\* alone, and so on; no step changes the scheduling discipline
ServiceOnly == UNCHANGED << cvars, wvars, valvars, nvars, run, sched >>
CacheOnly == UNCHANGED << svars, wvars, valvars, nvars, run, sched >>
WatcherOnly == UNCHANGED << svars, cvars, valvars, nvars, run, sched >>
ValidationOnly == UNCHANGED << svars, cvars, wvars, nvars, run, sched >>
ConstructionOnly == UNCHANGED << svars, cvars, wvars, valvars, run, sched >>
RunEnvoyOnly == UNCHANGED << svars, cvars, valvars, nvars, sched >>

(***************************************************************************)
(* Bounds of the model.                                                    *)
(***************************************************************************)
\* the number of operations the environment issues, under "conc" and "seq"
MaxOps == 3
MaxSeqOps == 4
\* the number of method calls made on the single cache
MaxCalls == 4

Workers == {"g1", "g2"}

(***************************************************************************)
(* Go values.                                                              *)
(***************************************************************************)
\* a nil []byte (discoveryCacheEntry.data after clear, or never set)
NilBytes == [json |-> "nil"]

\* var s []*host           (a nil slice: marshals to null)
NilSlice == [isNil |-> TRUE, elems |-> <<>>]

\* make([]*host, 0)        (an empty, non-nil slice: marshals to [])
MakeSlice == [isNil |-> FALSE, elems |-> <<>>]

\* append(s, x)
AppendSlice(s, x) == [isNil |-> FALSE, elems |-> Append(s.elems, x)]

\* encoding/json of a slice: null for a nil slice, an array otherwise
MarshalSlice(s) == IF s.isNil THEN [array |-> FALSE, elems |-> <<>>]
                   ELSE [array |-> TRUE, elems |-> s.elems]

RECURSIVE AppendAll(_, _)
\* for _, x := range xs { s = append(s, x) }
AppendAll(s, xs) ==
    IF xs = <<>> THEN s ELSE AppendAll(AppendSlice(s, Head(xs)), Tail(xs))

(***************************************************************************)
(* Request URLs.  A URL is the route it matches and its path parameters    *)
(* (go-restful binds them by position).  The service key is kept as its    *)
(* "|"-separated fields and the route-config-name as its characters, so    *)
(* that parsing them is a computation.                                     *)
(***************************************************************************)
MeshCluster == "istio-proxy"          \* mesh.IstioServiceCluster
HostInstanceV0 == "10.1.1.0"
HostInstanceV1 == "10.1.1.1"
HostInstanceW == "10.2.1.0"

SdsURL(key) ==
    [route |-> "registration", key |-> key, name |-> <<>>, cluster |-> "", node |-> "",
     query |-> ""]
CdsURL(sc, node) ==
    [route |-> "clusters", key |-> <<>>, name |-> <<>>, cluster |-> sc, node |-> node,
     query |-> ""]
RdsURL(name, sc, node) ==
    [route |-> "routes", key |-> <<>>, name |-> name, cluster |-> sc, node |-> node,
     query |-> ""]

ServiceKeys == { <<"hello", "http">>, <<"hello", "http", "version=v1">>, <<"nonexistent">> }
ClusterNames == { MeshCluster, "other" }
RouteConfigNames == { <<"8", "1">>, <<"x">> }
Nodes == { HostInstanceV0 }

\* the same path requested with a query string: the router ignores the
\* query, request.Request.URL.String() holds it
WithQuery(url, q) == [url EXCEPT !.query = q]

SdsURLs == { SdsURL(k) : k \in ServiceKeys }
           \cup { WithQuery(SdsURL(<<"hello", "http">>), "x=1") }
CdsURLs == { CdsURL(sc, n) : sc \in ClusterNames, n \in Nodes }
RdsURLs == { RdsURL(nm, MeshCluster, n) : nm \in RouteConfigNames, n \in Nodes }
           \cup { RdsURL(<<"8", "1">>, "other", n) : n \in Nodes }
URLs == SdsURLs \cup CdsURLs \cup RdsURLs

\* request.PathParameter(name)
PathParameter(url, param) ==
    CASE param = "service-key" -> url.key
      [] param = "service-cluster" -> url.cluster
      [] param = "service-node" -> url.node
      [] param = "route-config-name" -> url.name

(***************************************************************************)
(* The service registry (model.ServiceDiscovery) and the rule store        *)
(* (model.IstioRegistry), as the discovery service sees them.              *)
(***************************************************************************)
RouteRule == "route-rule"                     \* model.RouteRule
DestinationPolicy == "destination-policy"     \* model.DestinationPolicy
ConfigKinds == { RouteRule, DestinationPolicy }

Hostnames == { "hello", "world" }

\* the ports of a service, by hostname
ServicePorts == [ h \in Hostnames |->
    IF h = "hello" THEN << [name |-> "http", port |-> 80] >>
                   ELSE << [name |-> "http", port |-> 81] >> ]

\* every instance the registry can hold, in the order the registry lists them
AllInstances == <<
    [service |-> "hello", address |-> HostInstanceV0, port |-> 80,
     portName |-> "http", tags |-> {"version=v0"}],
    [service |-> "hello", address |-> HostInstanceV1, port |-> 80,
     portName |-> "http", tags |-> {"version=v1"}],
    [service |-> "world", address |-> HostInstanceW, port |-> 81,
     portName |-> "http", tags |-> {"version=v0"}] >>

\* the instances that exist now, in registry order
PresentInstances(svcs, insts) ==
    LET idx == SelectSeq(<<1, 2, 3>>,
                  LAMBDA i : i \in insts /\ AllInstances[i].service \in svcs)
    IN [ j \in 1..Len(idx) |-> AllInstances[idx[j]] ]

\* ServiceDiscovery.Services()
Services(svcs) == SelectSeq(<<"hello", "world">>, LAMBDA h : h \in svcs)

\* ServiceDiscovery.Instances(hostname, ports, tags)
Instances(svcs, insts, hostname, ports, tags) ==
    SelectSeq(PresentInstances(svcs, insts),
        LAMBDA ep : /\ ep.service = hostname
                    /\ ep.portName \in ports
                    /\ tags \subseteq ep.tags)

\* ServiceDiscovery.HostInstances(addrs)
HostInstances(svcs, insts, addrs) ==
    SelectSeq(PresentInstances(svcs, insts), LAMBDA ep : ep.address \in addrs)

\* model.ParseServiceKey: hostname|port-names|tags
ParseServiceKey(key) ==
    [ hostname |-> key[1],
      ports |-> IF Len(key) >= 2 THEN { key[2] } ELSE {},
      tags |-> IF Len(key) >= 3 THEN { key[3] } ELSE {} ]

\* decimal value of a digit character
DigitVal == ("0" :> 0) @@ ("1" :> 1) @@ ("2" :> 2) @@ ("3" :> 3) @@ ("4" :> 4) @@
            ("5" :> 5) @@ ("6" :> 6) @@ ("7" :> 7) @@ ("8" :> 8) @@ ("9" :> 9)

RECURSIVE DigitsValue(_, _)
DigitsValue(cs, acc) ==
    IF cs = <<>> THEN acc ELSE DigitsValue(Tail(cs), acc * 10 + DigitVal[Head(cs)])

\* strconv.Atoi: an optional sign, then one or more decimal digits
Atoi(cs) ==
    LET signed == cs # <<>> /\ Head(cs) \in {"+", "-"}
        digits == IF signed THEN Tail(cs) ELSE cs
        ok == digits # <<>> /\ \A i \in 1..Len(digits) : digits[i] \in DOMAIN DigitVal
    IN IF ~ok THEN [err |-> TRUE, val |-> 0]
       ELSE [err |-> FALSE,
             val |-> IF signed /\ Head(cs) = "-" THEN 0 - DigitsValue(digits, 0)
                     ELSE DigitsValue(digits, 0)]

\* the listener ports of the outbound HTTP route configs
RoutePorts(svcs) ==
    { ServicePorts[h][i].port : h \in svcs, i \in {1} }

\* buildOutboundHTTPRoutes(instances, services, context): one route config
\* per service port, with one virtual host per service on that port
buildOutboundHTTPRoutes(hostInsts, svcSeq, cfg) ==
    LET svcs == { svcSeq[i] : i \in 1..Len(svcSeq) }
    IN [ p \in RoutePorts(svcs) |->
           [ json |-> "route-config",
             virtual_hosts |->
               LET hs == SelectSeq(svcSeq, LAMBDA h : ServicePorts[h][1].port = p)
               IN [ j \in 1..Len(hs) |->
                      [ name |-> hs[j],
                        cluster |-> hs[j],
                        routes |-> IF RouteRule \in cfg /\ hostInsts # <<>>
                                   THEN "rule" ELSE "default" ] ] ] ]

\* the orders in which ranging over the HTTPRouteConfigs map can visit its ports
MapOrders(m) ==
    { o \in [1..Cardinality(DOMAIN m) -> DOMAIN m] :
        \A i, j \in DOMAIN o : i # j => o[i] # o[j] }

RECURSIVE ClustersOf(_, _)
\* HTTPRouteConfigs.clusters(): the clusters the routes refer to, in map order
ClustersOf(m, order) ==
    IF order = <<>> THEN <<>>
    ELSE LET vh == m[Head(order)].virtual_hosts
         IN [ j \in 1..Len(vh) |-> [name |-> vh[j].cluster, policy |-> "none"] ]
            \o ClustersOf(m, Tail(order))

\* Clusters.normalize(): de-duplicated and sorted by name
normalize(cs) ==
    LET names == { cs[i].name : i \in 1..Len(cs) }
        sorted == SelectSeq(<<"hello", "world">>, LAMBDA n : n \in names)
    IN [ j \in 1..Len(sorted) |->
           CHOOSE c \in { cs[i] : i \in 1..Len(cs) } : c.name = sorted[j] ]

\* insertDestinationPolicy(config, cluster)
insertDestinationPolicy(cfg, cluster) ==
    IF DestinationPolicy \in cfg THEN [cluster EXCEPT !.policy = "circuit-breaker"]
    ELSE cluster

(***************************************************************************)
(* discoveryCache: a map from URL to entry {data, hit, miss}.              *)
(* The counters are uint64; the bounds keep them far below 2^64.           *)
(***************************************************************************)
Families == { "sds", "cds", "rds" }

\* newDiscoveryCache(enabled)
newDiscoveryCache(enabled) == [ disabled |-> ~enabled, cache |-> << >> ]

\* &discoveryCacheEntry{}
NewEntry == [ data |-> NilBytes, hit |-> 0, miss |-> 0 ]

\* a faulty cache key that leaves the service-cluster out of the URL
CacheKeyWithoutCluster(url) == [url EXCEPT !.cluster = ""]

\* a faulty cache key that is the path of the URL, without its query
CacheKeyWithoutQuery(url) == [url EXCEPT !.query = ""]

\* request.Request.URL.String(): the cache key of a request
CacheKey(url) == url

\* a faulty lookup that counts the miss of a known key itself, although
\* updateCachedDiscoveryResponse will count it
cachedDiscoveryResponseCountingMiss(c, key) ==
    IF c.disabled THEN [ data |-> NilBytes, cached |-> FALSE, c |-> c ]
    ELSE IF key \notin DOMAIN c.cache
         THEN [ data |-> NilBytes, cached |-> FALSE, c |-> c ]
         ELSE IF c.cache[key].data = NilBytes
         THEN [ data |-> NilBytes, cached |-> FALSE,
                c |-> [c EXCEPT !.cache[key].miss = @ + 1] ]
         ELSE [ data |-> c.cache[key].data, cached |-> TRUE,
                c |-> [c EXCEPT !.cache[key].hit = @ + 1] ]

\* discoveryCache.cachedDiscoveryResponse(key): the bytes, whether it is a
\* hit, and the cache afterwards (a hit adds 1 to the entry's hit counter)
cachedDiscoveryResponse(c, key) ==
    IF c.disabled THEN [ data |-> NilBytes, cached |-> FALSE, c |-> c ]
    ELSE IF key \notin DOMAIN c.cache \/ c.cache[key].data = NilBytes
         THEN [ data |-> NilBytes, cached |-> FALSE, c |-> c ]
         ELSE [ data |-> c.cache[key].data, cached |-> TRUE,
                c |-> [c EXCEPT !.cache[key].hit = @ + 1] ]

\* a faulty update that stores a new entry instead of updating the old one,
\* forgetting the counters the key had
updateFreshEntry(c, key, data) ==
    IF c.disabled THEN c
    ELSE [c EXCEPT !.cache =
             (key :> [NewEntry EXCEPT !.data = data, !.miss = 1]) @@ @]

\* a faulty update that keeps the data an entry already holds: the first
\* of two concurrent stores wins and the second is not counted
updateUnlessPopulated(c, key, data) ==
    IF c.disabled THEN c
    ELSE IF key \in DOMAIN c.cache /\ c.cache[key].data # NilBytes THEN c
    ELSE LET entry == IF key \in DOMAIN c.cache THEN c.cache[key] ELSE NewEntry
         IN [c EXCEPT !.cache =
                (key :> [entry EXCEPT !.data = data, !.miss = @ + 1]) @@ @]

\* a faulty update that stores without looking at c.disabled
updateEvenIfDisabled(c, key, data) ==
    LET entry == IF key \in DOMAIN c.cache THEN c.cache[key] ELSE NewEntry
    IN [c EXCEPT !.cache =
           (key :> [entry EXCEPT !.data = data, !.miss = @ + 1]) @@ @]

\* discoveryCache.updateCachedDiscoveryResponse(key, data)
updateCachedDiscoveryResponse(c, key, data) ==
    IF c.disabled THEN c
    ELSE LET entry == IF key \in DOMAIN c.cache THEN c.cache[key] ELSE NewEntry
         IN [c EXCEPT !.cache =
                (key :> [entry EXCEPT !.data = data, !.miss = @ + 1]) @@ @]

\* a faulty clear that leaves the data in place
clearNothing(c) == c

\* a faulty clear that deletes the entries instead of emptying them
clearDeletesEntries(c) == [c EXCEPT !.cache = << >>]

\* discoveryCache.clear()
clear(c) ==
    [c EXCEPT !.cache = [ k \in DOMAIN @ |-> [@[k] EXCEPT !.data = NilBytes] ]]

\* a faulty resetStats that resets the hit counters only
resetHitsOnly(c) ==
    [c EXCEPT !.cache = [ k \in DOMAIN @ |-> [@[k] EXCEPT !.hit = 0] ]]

\* discoveryCache.resetStats()
resetStats(c) ==
    [c EXCEPT !.cache = [ k \in DOMAIN @ |-> [@[k] EXCEPT !.hit = 0, !.miss = 0] ]]

\* discoveryCache.stats()
stats(c) ==
    [ k \in DOMAIN c.cache |-> [ hit |-> c.cache[k].hit, miss |-> c.cache[k].miss ] ]

\* DiscoveryService.GetCacheStats: the three stats maps merged
\* (a later cache's entry replaces an earlier one's under the same key)
GetCacheStats == stats(ds.rdsCache) @@ stats(ds.cdsCache) @@ stats(ds.sdsCache)

(***************************************************************************)
(* Responses.                                                              *)
(***************************************************************************)
StatusOK == 200                     \* http.StatusOK
StatusNotFound == 404               \* http.StatusNotFound

NoResponse == [ status |-> 0 ]
NoRequest == [ route |-> "none" ]

\* writeResponse(response, data); cached tells whether data came from the cache
writeResponse(url, data, cached) ==
    [ url |-> url, status |-> StatusOK, body |-> data, cached |-> cached ]

\* errorResponse(response, status, msg)
errorResponse(url, status, msg) ==
    [ url |-> url, status |-> status, body |-> [json |-> "error", msg |-> msg],
      cached |-> FALSE ]

\* var hostArray []*host, a faulty start of the host list: a nil slice
hostArrayVar == NilSlice

\* hostArray := make([]*host, 0)
hostArrayInit == MakeSlice

\* ListEndpoints, on a miss: the SDS body for the service key of the URL
EndpointsBody(svcs, insts, url) ==
    LET k == ParseServiceKey(PathParameter(url, "service-key"))
        eps == Instances(svcs, insts, k.hostname, k.ports, k.tags)
        hs == [ i \in 1..Len(eps) |->
                  [ ip_address |-> eps[i].address, port |-> eps[i].port ] ]
    IN [ json |-> "hosts", hosts |-> MarshalSlice(AppendAll(hostArrayInit, hs)) ]

\* the route configs ListClusters and ListRoutes compute for a node
RouteConfigs(svcs, insts, cfg, url) ==
    buildOutboundHTTPRoutes(
        HostInstances(svcs, insts, {PathParameter(url, "service-node")}),
        Services(svcs), cfg)

\* a faulty ListClusters that does not normalize the clusters
ClustersBodyAsRanged(svcs, insts, cfg, url, order) ==
    LET clusters == ClustersOf(RouteConfigs(svcs, insts, cfg, url), order)
    IN [ json |-> "clusters",
         clusters |-> [ i \in 1..Len(clusters) |->
                          insertDestinationPolicy(cfg, clusters[i]) ] ]

\* ListClusters, on a miss with the expected service-cluster: the CDS body,
\* order being the order in which the route-config map was ranged over
ClustersBody(svcs, insts, cfg, url, order) ==
    LET clusters == normalize(ClustersOf(RouteConfigs(svcs, insts, cfg, url), order))
    IN [ json |-> "clusters",
         clusters |-> [ i \in 1..Len(clusters) |->
                          insertDestinationPolicy(cfg, clusters[i]) ] ]

(***************************************************************************)
(* Initial state: NewDiscoveryService(o) has returned; o.EnableCaching is  *)
(* either value; the registry holds hello (and maybe world).               *)
(***************************************************************************)
ZeroTally == [ u \in URLs |-> [ hit |-> 0, miss |-> 0 ] ]
NoReads == [ u \in URLs |-> 0 ]

InitAs(s) ==
    /\ sched = s
    /\ \E enabled \in BOOLEAN :
         ds = [ sdsCache |-> newDiscoveryCache(enabled),
                cdsCache |-> newDiscoveryCache(enabled),
                rdsCache |-> newDiscoveryCache(enabled) ]
    /\ services \in { {"hello"}, {"hello", "world"} }
    /\ instances = {1, 2, 3}
    /\ config \in { {}, ConfigKinds }
    /\ pc = [ w \in Workers |-> "idle" ]
    /\ req = [ w \in Workers |-> NoRequest ]
    /\ out = [ w \in Workers |-> NilBytes ]
    /\ resp = NoResponse
    /\ pending = 0
    /\ hpc = 0
    /\ spc = 0
    /\ nops = 0
    /\ changed = FALSE
    /\ tally = ZeroTally
    /\ reads = NoReads
    /\ clearedIn = {}
    /\ denied = {}

(***************************************************************************)
(* One discoveryCache under its RWMutex, statement by statement: callers   *)
(* run cachedDiscoveryResponse, updateCachedDiscoveryResponse, clear and   *)
(* resetStats concurrently on one enabled cache.  An assignment to         *)
(* entry.data writes a slice header, which is several words: a goroutine   *)
(* reading it meanwhile may see a torn value.                              *)
(***************************************************************************)
Callers == { "c1", "c2", "c3" }
Keys == { "k1", "k2" }
Payloads == { [json |-> "d1"], [json |-> "d2"] }

\* entry.data while an assignment to it is under way
Torn == [json |-> "torn"]

NoCall == [ op |-> "none", key |-> "", data |-> NilBytes, todo |-> {} ]
NoReturn == [ cached |-> FALSE, key |-> "", data |-> NilBytes ]
NoReport == [ stats |-> << >>, Hit |-> 0, before |-> << >> ]

\* a faulty discipline in which updateCachedDiscoveryResponse takes the
\* shared lock
LockTakenShared ==
    [ lookup |-> "r", update |-> "r", clear |-> "w", resetStats |-> "r", stats |-> "r" ]

\* the lock each method takes: "r" is c.mu.RLock(), "w" is c.mu.Lock()
LockTaken ==
    [ lookup |-> "r", update |-> "w", clear |-> "w", resetStats |-> "r", stats |-> "r" ]

\* sync.RWMutex: RLock waits for the writer, Lock for the writer and the readers
CanLock(m, mode) ==
    IF mode = "r" THEN m.w = "" ELSE m.w = "" /\ m.r = {}
Locked(m, g, mode) ==
    IF mode = "r" THEN [m EXCEPT !.r = @ \cup {g}] ELSE [m EXCEPT !.w = g]
Unlocked(m, g, mode) ==
    IF mode = "r" THEN [m EXCEPT !.r = @ \ {g}] ELSE [m EXCEPT !.w = ""]

CacheInit ==
    /\ mu = [ w |-> "", r |-> {} ]
    /\ entries = << >>
    /\ at = [ g \in Callers |-> "idle" ]
    /\ call = [ g \in Callers |-> NoCall ]
    /\ ret = [ g \in Callers |-> NoReturn ]
    /\ passed = {}
    /\ ncalls = 0
    /\ report = [ g \in Callers |-> NoReport ]

\* a caller enters a method
Call(g, op, key, data) ==
    /\ at[g] = "idle"
    /\ ncalls < MaxCalls
    /\ ncalls' = ncalls + 1
    /\ call' = [call EXCEPT ![g] = [ op |-> op, key |-> key, data |-> data, todo |-> {} ]]
    /\ at' = [at EXCEPT ![g] = "lock"]
    /\ ret' = [ret EXCEPT ![g] = NoReturn]
    /\ passed' = IF op = "update" THEN passed \cup { << key, data >> } ELSE passed
    /\ report' = [report EXCEPT ![g] = NoReport]
    /\ CacheOnly
    /\ UNCHANGED << mu, entries >>

\* c.mu.RLock() / c.mu.Lock(); a range loop will visit the keys there are
Acquire(g) ==
    /\ at[g] = "lock"
    /\ CanLock(mu, LockTaken[call[g].op])
    /\ mu' = Locked(mu, g, LockTaken[call[g].op])
    /\ at' = [at EXCEPT ![g] = "body"]
    /\ call' = [call EXCEPT ![g].todo =
                   IF call[g].op \in { "clear", "resetStats", "stats" } THEN DOMAIN entries ELSE {}]
    /\ report' = IF call[g].op = "stats"
                 THEN [report EXCEPT ![g].before =
                          stats([ disabled |-> FALSE, cache |-> entries ])]
                 ELSE report
    /\ CacheOnly
    /\ UNCHANGED << entries, ret, passed, ncalls >>

\* cachedDiscoveryResponse: entry, ok := c.cache[key];
\* if !ok || entry.data == nil { return nil, false }
LookupEntry(g) ==
    /\ at[g] = "body" /\ call[g].op = "lookup"
    /\ IF call[g].key \notin DOMAIN entries \/ entries[call[g].key].data = NilBytes
       THEN /\ at' = [at EXCEPT ![g] = "unlock"]
            /\ ret' = [ret EXCEPT ![g] =
                          [ cached |-> FALSE, key |-> call[g].key, data |-> NilBytes ]]
       ELSE /\ at' = [at EXCEPT ![g] = "hit"]
            /\ ret' = ret
    /\ CacheOnly
    /\ UNCHANGED << mu, entries, call, passed, ncalls, report >>

\* cachedDiscoveryResponse: atomic.AddUint64(&entry.hit, 1); return entry.data, true
LookupHit(g) ==
    /\ at[g] = "hit"
    /\ entries' = [entries EXCEPT ![call[g].key].hit = @ + 1]
    /\ ret' = [ret EXCEPT ![g] = [ cached |-> TRUE, key |-> call[g].key,
                                   data |-> entries[call[g].key].data ]]
    /\ at' = [at EXCEPT ![g] = "unlock"]
    /\ CacheOnly
    /\ UNCHANGED << mu, call, passed, ncalls, report >>

\* updateCachedDiscoveryResponse: entry, ok := c.cache[key];
\* if !ok { entry = &discoveryCacheEntry{}; c.cache[key] = entry }
UpdateEntry(g) ==
    /\ at[g] = "body" /\ call[g].op = "update"
    /\ entries' = IF call[g].key \in DOMAIN entries THEN entries
                  ELSE (call[g].key :> NewEntry) @@ entries
    /\ at' = [at EXCEPT ![g] = "write"]
    /\ CacheOnly
    /\ UNCHANGED << mu, call, ret, passed, ncalls, report >>

\* updateCachedDiscoveryResponse: entry.data = data, under way
UpdateWrite(g) ==
    /\ at[g] = "write"
    /\ entries' = [entries EXCEPT ![call[g].key].data = Torn]
    /\ at' = [at EXCEPT ![g] = "written"]
    /\ CacheOnly
    /\ UNCHANGED << mu, call, ret, passed, ncalls, report >>

\* updateCachedDiscoveryResponse: entry.data = data, done;
\* atomic.AddUint64(&entry.miss, 1)
UpdateWritten(g) ==
    /\ at[g] = "written"
    /\ entries' = [entries EXCEPT ![call[g].key].data = call[g].data,
                                  ![call[g].key].miss = @ + 1]
    /\ at' = [at EXCEPT ![g] = "unlock"]
    /\ CacheOnly
    /\ UNCHANGED << mu, call, ret, passed, ncalls, report >>

\* clear: for _, v := range c.cache { v.data = nil }, one iteration
ClearEntry(g) ==
    /\ at[g] = "body" /\ call[g].op = "clear"
    /\ IF call[g].todo = {}
       THEN at' = [at EXCEPT ![g] = "unlock"] /\ UNCHANGED << entries, call >>
       ELSE \E k \in call[g].todo :
               /\ entries' = [entries EXCEPT ![k].data = NilBytes]
               /\ call' = [call EXCEPT ![g].todo = @ \ {k}]
               /\ at' = at
    /\ CacheOnly
    /\ UNCHANGED << mu, ret, passed, ncalls, report >>

\* resetStats: for _, v := range c.cache { atomic.StoreUint64(&v.hit, 0) ...
ResetHit(g) ==
    /\ at[g] = "body" /\ call[g].op = "resetStats"
    /\ IF call[g].todo = {}
       THEN at' = [at EXCEPT ![g] = "unlock"] /\ UNCHANGED << entries, call >>
       ELSE \E k \in call[g].todo :
               /\ entries' = [entries EXCEPT ![k].hit = 0]
               /\ call' = [call EXCEPT ![g].key = k]
               /\ at' = [at EXCEPT ![g] = "miss"]
    /\ CacheOnly
    /\ UNCHANGED << mu, ret, passed, ncalls, report >>

\* resetStats: ... atomic.StoreUint64(&v.miss, 0) }
ResetMiss(g) ==
    /\ at[g] = "miss"
    /\ entries' = [entries EXCEPT ![call[g].key].miss = 0]
    /\ call' = [call EXCEPT ![g].todo = @ \ { call[g].key }]
    /\ at' = [at EXCEPT ![g] = "body"]
    /\ CacheOnly
    /\ UNCHANGED << mu, ret, passed, ncalls, report >>

\* the deferred c.mu.RUnlock() / c.mu.Unlock(), and the return
Release(g) ==
    /\ at[g] = "unlock"
    /\ mu' = Unlocked(mu, g, LockTaken[call[g].op])
    /\ at' = [at EXCEPT ![g] = "idle"]
    /\ call' = [call EXCEPT ![g] = NoCall]
    /\ CacheOnly
    /\ UNCHANGED << entries, ret, passed, ncalls, report >>

\* stats: for k, v := range c.cache { ... Hit: atomic.LoadUint64(&v.hit),
StatsHit(g) ==
    /\ at[g] = "body" /\ call[g].op = "stats"
    /\ IF call[g].todo = {}
       THEN at' = [at EXCEPT ![g] = "unlock"] /\ UNCHANGED << call, report >>
       ELSE \E k \in call[g].todo :
               /\ report' = [report EXCEPT ![g].Hit = entries[k].hit]
               /\ call' = [call EXCEPT ![g].key = k]
               /\ at' = [at EXCEPT ![g] = "loadmiss"]
    /\ CacheOnly
    /\ UNCHANGED << mu, entries, ret, passed, ncalls >>

\* stats: ... Miss: atomic.LoadUint64(&v.miss) }; stats[k] = &...
StatsMiss(g) ==
    /\ at[g] = "loadmiss"
    /\ report' = [report EXCEPT ![g].stats =
                     (call[g].key :> [ hit |-> report[g].Hit,
                                       miss |-> entries[call[g].key].miss ]) @@ @]
    /\ call' = [call EXCEPT ![g].todo = @ \ { call[g].key }]
    /\ at' = [at EXCEPT ![g] = "body"]
    /\ CacheOnly
    /\ UNCHANGED << mu, entries, ret, passed, ncalls >>

\* a whole request for key served while no caller is inside the cache:
\* a hit, or a miss that stores data
ServeRequest(key, data) ==
    /\ \A g \in Callers : at[g] = "idle"
    /\ ncalls < MaxCalls
    /\ ncalls' = ncalls + 1
    /\ LET c == [ disabled |-> FALSE, cache |-> entries ]
           r == cachedDiscoveryResponse(c, key)
       IN IF r.cached
          THEN entries' = r.c.cache /\ passed' = passed
          ELSE /\ entries' = updateCachedDiscoveryResponse(c, key, data).cache
               /\ passed' = passed \cup { << key, data >> }
    /\ CacheOnly
    /\ UNCHANGED << mu, at, call, ret, report >>

\* GET /cache_stats and POST /cache_stats_delete on one cache, statement
\* by statement, between requests
StatsNext ==
    \/ \E k \in Keys, d \in Payloads : ServeRequest(k, d)
    \/ \E g \in Callers : Call(g, "stats", "", NilBytes)
    \/ \E g \in Callers : Call(g, "resetStats", "", NilBytes)
    \/ \E g \in Callers : Acquire(g)
    \/ \E g \in Callers : StatsHit(g)
    \/ \E g \in Callers : StatsMiss(g)
    \/ \E g \in Callers : ResetHit(g)
    \/ \E g \in Callers : ResetMiss(g)
    \/ \E g \in Callers : Release(g)

CacheNext ==
    \/ \E g \in Callers, k \in Keys : Call(g, "lookup", k, NilBytes)
    \/ \E g \in Callers, k \in Keys, d \in Payloads : Call(g, "update", k, d)
    \/ \E g \in Callers : Call(g, "clear", "", NilBytes)
    \/ \E g \in Callers : Call(g, "resetStats", "", NilBytes)
    \/ \E g \in Callers : Acquire(g)
    \/ \E g \in Callers : LookupEntry(g)
    \/ \E g \in Callers : LookupHit(g)
    \/ \E g \in Callers : UpdateEntry(g)
    \/ \E g \in Callers : UpdateWrite(g)
    \/ \E g \in Callers : UpdateWritten(g)
    \/ \E g \in Callers : ClearEntry(g)
    \/ \E g \in Callers : ResetHit(g)
    \/ \E g \in Callers : ResetMiss(g)
    \/ \E g \in Callers : Release(g)

(***************************************************************************)
(* Validation.                                                             *)
(*                                                                         *)
(* The sources hold the validators of package model in two revisions,      *)
(* model/validation.go and a second file of the same package; they differ  *)
(* in validatePercent and validateFloatPercent, in validateAbort, in       *)
(* ValidateRouteRule and in some error texts, and only the second has      *)
(* validateWeights.  Where they differ the operators take the revision.    *)
(* A string is the sequence of its characters, an error value the          *)
(* sequence of the errors a multierror holds (empty for nil; appending a   *)
(* multierror appends its errors), and an error its format string with    *)
(* an argument.  A pointer that may be nil is a record with the field      *)
(* isNil; reading a field through a nil pointer is a panic, recorded in    *)
(* vpanic.                                                                 *)
(***************************************************************************)
\* the longest route list validated
MaxRoutes == 3

Revisions == { "validation.go", "part_001" }

dns1123LabelMaxLength == 63
\* [a-z0-9] and [-a-z0-9]
LowerAlnum == { "a", "b", "c", "d", "e", "f", "g", "h", "i", "j", "k", "l", "m",
                "n", "o", "p", "q", "r", "s", "t", "u", "v", "w", "x", "y", "z",
                "0", "1", "2", "3", "4", "5", "6", "7", "8", "9" }
\* dns1123LabelRex: ^[a-z0-9]([-a-z0-9]*[a-z0-9])?$
dns1123LabelRex(value) ==
    /\ value # << >>
    /\ value[1] \in LowerAlnum
    /\ value[Len(value)] \in LowerAlnum
    /\ \A i \in 1..Len(value) : value[i] \in LowerAlnum \cup { "-" }

\* a label test without the limit on the length
IsDNS1123LabelOfAnyLength(value) == dns1123LabelRex(value)

IsDNS1123Label(value) ==
    Len(value) <= dns1123LabelMaxLength /\ dns1123LabelRex(value)

\* strings.Split(s, sep) for a one-character separator: the pieces between
\* the separators, empty ones included
RECURSIVE SplitOn(_, _)
SplitOn(s, sep) ==
    LET seps == { k \in 1..Len(s) : s[k] = sep } IN
    IF seps = { } THEN << s >>
    ELSE LET first == CHOOSE k \in seps : \A j \in seps : k <= j
         IN << SubSeq(s, 1, first - 1) >> \o SplitOn(SubSeq(s, first + 1, Len(s)), sep)

\* the first label of labels that is no DNS-1123 label, if there is one
RECURSIVE FirstInvalidLabel(_)
FirstInvalidLabel(labels) ==
    IF labels = << >> THEN << >>
    ELSE IF ~IsDNS1123Label(Head(labels))
         THEN << [ text |-> "domain name %q invalid (label %q invalid)",
                   arg |-> Head(labels) ] >>
         ELSE FirstInvalidLabel(Tail(labels))

validateFQDN(fqdn) ==
    IF Len(fqdn) > 255
    THEN << [ text |-> "domain name %q too long (max 255)", arg |-> fqdn ] >>
    ELSE IF Len(fqdn) = 0
    THEN << [ text |-> "empty domain name not allowed", arg |-> << >> ] >>
    ELSE FirstInvalidLabel(SplitOn(fqdn, "."))

\* a block test that lets 0 bits through
validateCIDRBlockFromZero(cidr) ==
    LET bits == Atoi(cidr) IN
    IF bits.err \/ bits.val < 0 \/ bits.val > 32
    THEN << [ text |-> "/%v is not a valid CIDR block", arg |-> cidr ] >>
    ELSE << >>

\* validateCIDRBlock
validateCIDRBlock(cidr) ==
    LET bits == Atoi(cidr) IN
    IF bits.err \/ bits.val <= 0 \/ bits.val > 32
    THEN << [ text |-> "/%v is not a valid CIDR block", arg |-> cidr ] >>
    ELSE << >>

\* some octet is no integer of 0..255: the loop returns at the first one
BadOctet(octet) ==
    LET n == Atoi(octet) IN n.err \/ n.val < 0 \/ n.val > 255

\* validateIPv4Address
validateIPv4Address(addr) ==
    LET octets == SplitOn(addr, ".") IN
    IF Len(octets) # 4
    THEN << [ text |-> "%q is not a valid IP address", arg |-> addr ] >>
    ELSE IF \E i \in 1..Len(octets) : BadOctet(octets[i])
         THEN << [ text |-> "%q is not a valid IP address", arg |-> addr ] >>
         ELSE << >>

\* validateIPv4Subnet
validateIPv4Subnet(subnet) ==
    LET parts == SplitOn(subnet, "/") IN
    IF Len(parts) > 2
    THEN << [ text |-> "%q is not valid CIDR notation", arg |-> subnet ] >>
    ELSE (IF Len(parts) = 2 THEN validateCIDRBlock(parts[2]) ELSE << >>)
         \o validateIPv4Address(parts[1])

\* validateSubnet
validateSubnet(subnet) == validateIPv4Subnet(subnet)

\* validateFloatPercent; a float32 is modelled by an integer, as no
\* comparison made of it tells more than its order against 0 and 100
validateFloatPercent(rev, err, val, label) ==
    IF rev = "part_001"
    THEN IF val < 0 \/ val > 100
         THEN Append(err, [ text |-> "%v must be in range 0..100", arg |-> label ])
         ELSE err
    ELSE (IF val > 100
          THEN Append(err, [ text |-> "%v must not exceed 100", arg |-> label ])
          ELSE err)
         \o (IF val < 0
             THEN << [ text |-> "%v must be in range 0..100", arg |-> label ] >>
             ELSE << >>)

\* the sub-messages of a fault: a nil pointer, and the getters of the
\* generated code, which return the zero value when the receiver is nil or
\* the oneof holds another case
NilDelay == [ isNil |-> TRUE, Percent |-> 0, HttpDelayType |-> "nil", Seconds |-> 0 ]
NilAbort == [ isNil |-> TRUE, Percent |-> 0, ErrorType |-> "nil", HttpStatus |-> 0 ]
NilTerminate == [ isNil |-> TRUE, Percent |-> 0 ]
NilThrottle == [ isNil |-> TRUE, Percent |-> 0, DownstreamLimitBps |-> 0,
                 UpstreamLimitBps |-> 0, ThrottleAfter |-> "nil", After |-> 0 ]
NilHTTPFault == [ isNil |-> TRUE, Delay |-> NilDelay, Abort |-> NilAbort ]
NilL4Fault == [ isNil |-> TRUE, Terminate |-> NilTerminate, Throttle |-> NilThrottle ]

GetFixedDelaySeconds(dl) ==
    IF dl.HttpDelayType = "FixedDelaySeconds" THEN dl.Seconds ELSE 0
GetExponentialDelaySeconds(dl) ==
    IF dl.HttpDelayType = "ExponentialDelaySeconds" THEN dl.Seconds ELSE 0
GetThrottleAfterSeconds(throttle) ==
    IF throttle.ThrottleAfter = "ThrottleAfterSeconds" THEN throttle.After ELSE 0
GetThrottleAfterBytes(throttle) ==
    IF throttle.ThrottleAfter = "ThrottleAfterBytes" THEN throttle.After ELSE 0
GetDelay(fault) == IF fault.isNil THEN NilDelay ELSE fault.Delay
GetAbort(fault) == IF fault.isNil THEN NilAbort ELSE fault.Abort
GetTerminate(fault) == IF fault.isNil THEN NilTerminate ELSE fault.Terminate
GetThrottle(fault) == IF fault.isNil THEN NilThrottle ELSE fault.Throttle

\* an error without arguments, if cond holds
ErrorIf(cond, text) == IF cond THEN << [ text |-> text, arg |-> << >> ] >> ELSE << >>

\* validateDelay
validateDelay(rev, dl) ==
    validateFloatPercent(rev, << >>, dl.Percent, "delay")
    \o ErrorIf(GetFixedDelaySeconds(dl) < 0, "delay fixed_seconds invalid")
    \o (IF GetExponentialDelaySeconds(dl) # 0
        THEN ErrorIf(GetExponentialDelaySeconds(dl) < 0,
                     "delay exponential_seconds invalid")
             \o ErrorIf(TRUE, IF rev = "part_001"
                              THEN "Istio does not support exponential_seconds yet"
                              ELSE "exponential_seconds not implemented")
        ELSE << >>)

\* validateAbortHTTPStatus
validateAbortHTTPStatus(httpStatus) ==
    IF httpStatus < 0 \/ httpStatus > 600
    THEN << [ text |-> "invalid abort http status %v", arg |-> httpStatus ] >>
    ELSE << >>

\* validateAbort
validateAbort(rev, abort) ==
    validateFloatPercent(rev, << >>, abort.Percent, "abort")
    \o (CASE abort.ErrorType = "GrpcStatus" ->
                ErrorIf(rev = "part_001",
                        "Istio does not support gRPC fault injection yet")
          [] abort.ErrorType = "Http2Error" -> << >>
          [] abort.ErrorType = "HttpStatus" ->
                validateAbortHTTPStatus(abort.HttpStatus)
          [] OTHER -> << >>)

\* ValidateHTTPFault
ValidateHTTPFault(rev, fault) ==
    (IF ~GetDelay(fault).isNil THEN validateDelay(rev, GetDelay(fault)) ELSE << >>)
    \o (IF ~GetAbort(fault).isNil THEN validateAbort(rev, GetAbort(fault)) ELSE << >>)

\* validateTerminate
validateTerminate(rev, terminate) ==
    validateFloatPercent(rev, << >>, terminate.Percent, "terminate")

\* validateThrottle
validateThrottle(rev, throttle) ==
    validateFloatPercent(rev, << >>, throttle.Percent, "throttle")
    \o ErrorIf(throttle.DownstreamLimitBps < 0, "downstream_limit_bps invalid")
    \o ErrorIf(throttle.UpstreamLimitBps < 0, "upstream_limit_bps invalid")
    \o ErrorIf(GetThrottleAfterSeconds(throttle) < 0, "throttle_after_seconds invalid")
    \o ErrorIf(GetThrottleAfterBytes(throttle) < 0, "throttle_after_bytes invalid")

\* an L4 fault validator that lets a terminate section with a valid percent
\* through
ValidateL4FaultLenient(rev, fault) ==
    (IF ~GetTerminate(fault).isNil
     THEN validateTerminate(rev, GetTerminate(fault)) ELSE << >>)
    \o (IF ~GetThrottle(fault).isNil
        THEN validateThrottle(rev, GetThrottle(fault)) ELSE << >>)

\* ValidateL4Fault
ValidateL4Fault(rev, fault) ==
    (IF ~GetTerminate(fault).isNil
     THEN validateTerminate(rev, GetTerminate(fault))
          \o ErrorIf(TRUE, IF rev = "part_001"
                           THEN "Istio does not support the terminate fault yet"
                           ELSE "terminate not implemented")
     ELSE << >>)
    \o (IF ~GetThrottle(fault).isNil
        THEN validateThrottle(rev, GetThrottle(fault)) ELSE << >>)

\* [-A-Za-z0-9_./]
UpperAlpha == { "A", "B", "C", "D", "E", "F", "G", "H", "I", "J", "K", "L", "M",
                "N", "O", "P", "Q", "R", "S", "T", "U", "V", "W", "X", "Y", "Z" }
QualifiedNameChars == LowerAlnum \cup UpperAlpha \cup { "-", "_", ".", "/" }
\* tagRegexp: ^[-A-Za-z0-9_./]*$
tagRegexp(value) == \A i \in 1..Len(value) : value[i] \in QualifiedNameChars

\* the orders in which a range over the map t (a set of pairs of a key and
\* its value) can visit it: the language leaves the order open
RangeOrders(t) ==
    { o \in [ 1..Cardinality(t) -> t ] :
        \A i \in DOMAIN o : \A j \in DOMAIN o : o[i] = o[j] => i = j }

\* Tags.Validate, for a range that visits the tags in this order
RECURSIVE TagsValidateIn(_)
TagsValidateIn(order) ==
    IF order = << >> THEN << >>
    ELSE (IF ~tagRegexp(Head(order)[1])
          THEN << [ text |-> "Invalid tag key: %q", arg |-> Head(order)[1] ] >>
          ELSE << >>)
         \o (IF ~tagRegexp(Head(order)[2])
             THEN << [ text |-> "Invalid tag value: %q", arg |-> Head(order)[2] ] >>
             ELSE << >>)
         \o TagsValidateIn(Tail(order))

\* Tags.Validate, for tags that a range can visit in one order only
TagsValidate(t) == TagsValidateIn(CHOOSE o \in RangeOrders(t) : TRUE)

validatePercent(rev, err, val, label) ==
    IF rev = "part_001"
    THEN IF val < 0 \/ val > 100
         THEN Append(err, [ text |-> "%v must be in range 0..100", arg |-> label ])
         ELSE err
    ELSE (IF val > 100
          THEN Append(err, [ text |-> "%v must not exceed 100", arg |-> label ])
          ELSE err)
         \o (IF val < 0
             THEN << [ text |-> "%v must be in range 0..100", arg |-> label ] >>
             ELSE << >>)

ValidateDestinationWeight(rev, dw) ==
    validatePercent(rev,
        (IF dw.Destination # << >> THEN validateFQDN(dw.Destination) ELSE << >>)
            \o TagsValidate(dw.Tags),
        dw.Weight, "weight")

\* for _, destWeight := range value.Route { .. ValidateDestinationWeight(destWeight) .. }
RECURSIVE ValidateDestinationWeights(_, _)
ValidateDestinationWeights(rev, routes) ==
    IF routes = << >> THEN << >>
    ELSE ValidateDestinationWeight(rev, Head(routes))
            \o ValidateDestinationWeights(rev, Tail(routes))

\* sum := 0; for _, destWeight := range routes { sum = sum + int(destWeight.Weight) }
\* (int32 weights added as int: no list that fits in memory overflows 64 bits)
RECURSIVE SumWeights(_, _)
SumWeights(routes, sum) ==
    IF routes = << >> THEN sum
    ELSE SumWeights(Tail(routes), sum + Head(routes).Weight)

\* a weight check that constrains only route lists of more than one
\* destination
validateWeightsOfMany(routes) ==
    LET sum == SumWeights(routes, 0) IN
    IF Len(routes) <= 1 THEN << >>
    ELSE IF sum # 100
         THEN << [ text |-> "Route weights total %v (must total 100)", arg |-> sum ] >>
         ELSE << >>

\* validateWeights (of the second revision)
validateWeights(routes) ==
    LET sum == SumWeights(routes, 0) IN
    IF Len(routes) = 1 /\ sum = 0 THEN << >>
    ELSE IF sum # 100
         THEN << [ text |-> "Route weights total %v (must total 100)", arg |-> sum ] >>
         ELSE << >>

\* ValidateRouteRule, for a rule whose Match, HttpReqTimeout and
\* HttpReqRetries are nil
ValidateRouteRule(rev, msg) ==
    IF msg.type # "RouteRule"
    THEN << [ text |-> "cannot cast to routing rule", arg |-> << >> ] >>
    ELSE (IF msg.Destination = << >>
          THEN << [ text |-> "route rule must have a destination service", arg |-> << >> ] >>
          ELSE << >>)
         \o validateFQDN(msg.Destination)
         \o (IF ~msg.Route.isNil
             THEN ValidateDestinationWeights(rev, msg.Route.elems)
                  \o (IF rev = "part_001" THEN validateWeights(msg.Route.elems)
                      ELSE << >>)
             ELSE << >>)
         \o (IF ~msg.HttpFault.isNil
             THEN ValidateHTTPFault(rev, msg.HttpFault) ELSE << >>)
         \o (IF ~msg.L4Fault.isNil
             THEN ValidateL4Fault(rev, msg.L4Fault)
                  \o ErrorIf(TRUE, "L4 faults are not implemented")
             ELSE << >>)

ValidateIngressRule(rev, msg) == ValidateRouteRule(rev, msg)

\* ValidateDestinationPolicy, for a policy without tags, load balancing and
\* circuit breaker
ValidateDestinationPolicy(rev, msg) ==
    IF msg.type # "DestinationPolicy"
    THEN << [ text |-> "Cannot cast to destination policy", arg |-> << >> ] >>
    ELSE IF msg.Destination = << >>
         THEN ErrorIf(TRUE, "destination policy should have a valid service name in its destination field")
         ELSE validateFQDN(msg.Destination)

\* for _, part := range parts { if !IsDNS1123Label(part) { .. } }
RECURSIVE InvalidHostnameParts(_)
InvalidHostnameParts(parts) ==
    IF parts = << >> THEN << >>
    ELSE (IF ~IsDNS1123Label(Head(parts))
          THEN << [ text |-> "Invalid hostname part: %q", arg |-> Head(parts) ] >>
          ELSE << >>)
         \o InvalidHostnameParts(Tail(parts))

\* the body of the loop over s.Ports, for one port of a service of n ports
ValidatePort(port, n) ==
    (IF port.Name = << >>
     THEN ErrorIf(n > 1, "Empty port names are not allowed for services with multiple ports")
     ELSE IF ~IsDNS1123Label(port.Name)
          THEN << [ text |-> "Invalid name: %q", arg |-> port.Name ] >>
          ELSE << >>)
    \o (IF port.Port < 0
        THEN << [ text |-> "Invalid service port value %d for %q", arg |-> port.Name ] >>
        ELSE << >>)

RECURSIVE ValidatePorts(_, _)
ValidatePorts(ports, n) ==
    IF ports = << >> THEN << >>
    ELSE ValidatePort(Head(ports), n) \o ValidatePorts(Tail(ports), n)

\* Service.Validate
ServiceValidate(svc) ==
    ErrorIf(Len(svc.Hostname) = 0, "Invalid empty hostname")
    \o InvalidHostnameParts(SplitOn(svc.Hostname, "."))
    \o ErrorIf(Len(svc.Ports) = 0, "Service must have at least one declared port")
    \o ValidatePorts(svc.Ports, Len(svc.Ports))

\* PortList.Get: the first port of that name, if there is one
PortsGet(ports, name) ==
    LET named == { i \in 1..Len(ports) : ports[i].Name = name } IN
    IF named = { } THEN [ ok |-> FALSE, port |-> << >> ]
    ELSE [ ok |-> TRUE,
           port |-> << ports[CHOOSE i \in named : \A j \in named : i <= j] >> ]

NilService == [ isNil |-> TRUE, Hostname |-> << >>, Ports |-> << >> ]
NilPort == [ isNil |-> TRUE, Name |-> << >>, Port |-> 0, Protocol |-> "" ]

\* an instance validator that takes any port of the service's by name
ValidateServicePortByName(instance) ==
    LET port == instance.Endpoint.ServicePort
        expected == PortsGet(instance.Service.Ports, port.Name)
    IN IF port.isNil THEN ErrorIf(TRUE, "Missing service port")
       ELSE IF instance.Service.isNil THEN << >>
       ELSE IF ~expected.ok
            THEN << [ text |-> "Missing service port %q", arg |-> port.Name ] >>
            ELSE << >>

\* the checks of ServiceInstance.Validate on the service port
ValidateServicePort(instance) ==
    LET port == instance.Endpoint.ServicePort
        expected == PortsGet(instance.Service.Ports, port.Name)
    IN IF port.isNil THEN ErrorIf(TRUE, "Missing service port")
       ELSE IF instance.Service.isNil THEN << >>
       ELSE IF ~expected.ok
            THEN << [ text |-> "Missing service port %q", arg |-> port.Name ] >>
            ELSE (IF expected.port[1].Port # port.Port
                  THEN << [ text |-> "Unexpected service port value %d, expected %d",
                            arg |-> port.Name ] >>
                  ELSE << >>)
                 \o (IF expected.port[1].Protocol # port.Protocol
                     THEN << [ text |-> "Unexpected service protocol %s, expected %s",
                               arg |-> port.Name ] >>
                     ELSE << >>)

\* ServiceInstance.Validate, for a range that visits the tags in this order
ServiceInstanceValidate(instance, order) ==
    (IF instance.Service.isNil
     THEN ErrorIf(TRUE, "Missing service in the instance")
     ELSE ServiceValidate(instance.Service))
    \o TagsValidateIn(order)
    \o (IF instance.Endpoint.Port < 0
        THEN << [ text |-> "Negative port value: %d", arg |-> << >> ] >>
        ELSE << >>)
    \o ValidateServicePort(instance)

\* where the validators read a field through a nil pointer: the pointer
\* cast from the message (value.Destination), an element of the route list
\* (dw.Destination)
DestinationWeightNilDeref(dw) == dw.isNil
RouteRuleNilDeref(msg) ==
    /\ msg.type = "RouteRule"
    /\ \/ msg.isNil
       \/ /\ ~msg.Route.isNil
          /\ \E i \in 1..Len(msg.Route.elems) :
                DestinationWeightNilDeref(msg.Route.elems[i])
DestinationPolicyNilDeref(msg) == msg.type = "DestinationPolicy" /\ msg.isNil

\* Key.Validate
KeyValidate(k) ==
    (IF ~IsDNS1123Label(k.Kind)
     THEN << [ text |-> "Invalid kind: %q", arg |-> k.Kind ] >> ELSE << >>)
    \o (IF ~IsDNS1123Label(k.Name)
        THEN << [ text |-> "Invalid name: %q", arg |-> k.Name ] >> ELSE << >>)
    \o (IF ~IsDNS1123Label(k.Namespace)
        THEN << [ text |-> "Invalid namespace: %q", arg |-> k.Namespace ] >> ELSE << >>)

\* the kinds that are declared, with the name of their message and their
\* validator
RouteRuleKind == << "r", "o", "u", "t", "e", "-", "r", "u", "l", "e" >>
DestinationPolicyKind == << "d", "e", "s", "t", "i", "n", "a", "t", "i", "o", "n", "-", "p", "o", "l", "i", "c", "y" >>
IstioConfig ==
    (RouteRuleKind :> [ MessageName |-> "RouteRule", Validate |-> "ValidateRouteRule" ])
    @@ (DestinationPolicyKind :>
            [ MessageName |-> "DestinationPolicy",
              Validate |-> "ValidateDestinationPolicy" ])

\* t.Validate(v), and whether it reads through a nil pointer
SchemaValidate(t, rev, v) ==
    IF t.Validate = "ValidateRouteRule" THEN ValidateRouteRule(rev, v)
    ELSE ValidateDestinationPolicy(rev, v)
SchemaNilDeref(t, v) ==
    IF t.Validate = "ValidateRouteRule" THEN RouteRuleNilDeref(v)
    ELSE DestinationPolicyNilDeref(v)

\* proto.MessageName(v)
MessageName(v) == v.type

\* a ValidateConfig that goes on to the kind and the payload after an
\* invalid key
ValidateConfigKeyUnchecked(km, rev, k, obj) ==
    IF k.isNil \/ obj.is = "nil"
    THEN ErrorIf(TRUE, "Invalid nil configuration object")
    ELSE IF k.Kind \notin DOMAIN km
    THEN << [ text |-> "Undeclared kind: %q", arg |-> k.Kind ] >>
    ELSE IF obj.is # "proto.Message"
    THEN ErrorIf(TRUE, "Cannot cast to a proto message")
    ELSE IF MessageName(obj.v) # km[k.Kind].MessageName
    THEN << [ text |-> "Mismatched message type %q and kind %q",
              arg |-> MessageName(obj.v) ] >>
    ELSE SchemaValidate(km[k.Kind], rev, obj.v)

\* KindMap.ValidateConfig
ValidateConfig(km, rev, k, obj) ==
    IF k.isNil \/ obj.is = "nil"
    THEN ErrorIf(TRUE, "Invalid nil configuration object")
    ELSE IF KeyValidate(k) # << >>
    THEN KeyValidate(k)
    ELSE IF k.Kind \notin DOMAIN km
    THEN << [ text |-> "Undeclared kind: %q", arg |-> k.Kind ] >>
    ELSE IF obj.is # "proto.Message"
    THEN ErrorIf(TRUE, "Cannot cast to a proto message")
    ELSE IF MessageName(obj.v) # km[k.Kind].MessageName
    THEN << [ text |-> "Mismatched message type %q and kind %q",
              arg |-> MessageName(obj.v) ] >>
    ELSE SchemaValidate(km[k.Kind], rev, obj.v)

\* the call reaches the kind's validator, and that reads through a nil
\* pointer
ValidateConfigNilDeref(km, k, obj) ==
    /\ ~k.isNil /\ obj.is = "proto.Message"
    /\ KeyValidate(k) = << >>
    /\ k.Kind \in DOMAIN km
    /\ MessageName(obj.v) = km[k.Kind].MessageName
    /\ SchemaNilDeref(km[k.Kind], obj.v)

\* the weights, in and out of range, the route lists and the messages that
\* the validators are given
Weights == { -50, 0, 30, 70, 100, 150 }
NilDW == [ isNil |-> TRUE, Destination |-> << >>, Tags |-> { }, Weight |-> 0 ]
RouteLists ==
    { NilSlice } \cup
    { [ isNil |-> FALSE,
        elems |-> [ i \in DOMAIN ws |-> [ isNil |-> FALSE, Destination |-> << >>,
                                          Tags |-> { }, Weight |-> ws[i] ] ] ] :
        ws \in UNION { [ 1..n -> Weights ] : n \in 0..MaxRoutes } }
\* route lists that hold a nil pointer
RouteListsWithNil ==
    { [ isNil |-> FALSE, elems |-> << NilDW >> ],
      [ isNil |-> FALSE,
        elems |-> << [ isNil |-> FALSE, Destination |-> << >>, Tags |-> { },
                       Weight |-> 100 ], NilDW >> ] }
FQDNs == { << >>, << "a", ".", "b", "-", "1" >>, << "a", ".", ".", "B" >> }

\* percents, seconds and limits, and HTTP statuses, in and out of range
Percents == { -1, 0, 50, 100, 101 }
Amounts == { -1, 0, 5 }
Statuses == { -1, 0, 200, 600, 601 }
Delays ==
    { NilDelay } \cup
    { [ isNil |-> FALSE, Percent |-> p, HttpDelayType |-> "nil", Seconds |-> 0 ] :
        p \in Percents } \cup
    { [ isNil |-> FALSE, Percent |-> p, HttpDelayType |-> t, Seconds |-> n ] :
        p \in Percents, t \in { "FixedDelaySeconds", "ExponentialDelaySeconds" },
        n \in Amounts }
Aborts ==
    { NilAbort } \cup
    { [ isNil |-> FALSE, Percent |-> p, ErrorType |-> t, HttpStatus |-> 0 ] :
        p \in Percents, t \in { "nil", "GrpcStatus", "Http2Error" } } \cup
    { [ isNil |-> FALSE, Percent |-> p, ErrorType |-> "HttpStatus", HttpStatus |-> h ] :
        p \in Percents, h \in Statuses }
HTTPFaults ==
    { NilHTTPFault } \cup
    { [ isNil |-> FALSE, Delay |-> d, Abort |-> a ] : d \in Delays, a \in Aborts }
Terminates ==
    { NilTerminate } \cup { [ isNil |-> FALSE, Percent |-> p ] : p \in Percents }
Throttles ==
    { NilThrottle } \cup
    { [ isNil |-> FALSE, Percent |-> p, DownstreamLimitBps |-> d,
        UpstreamLimitBps |-> u, ThrottleAfter |-> "nil", After |-> 0 ] :
        p \in Percents, d \in { -1, 0 }, u \in { -1, 5 } } \cup
    { [ isNil |-> FALSE, Percent |-> p, DownstreamLimitBps |-> 0,
        UpstreamLimitBps |-> 0, ThrottleAfter |-> t, After |-> n ] :
        p \in Percents, t \in { "ThrottleAfterSeconds", "ThrottleAfterBytes" },
        n \in Amounts }
L4Faults ==
    { NilL4Fault } \cup
    { [ isNil |-> FALSE, Terminate |-> t, Throttle |-> h ] :
        t \in Terminates, h \in Throttles }

\* the types of proto.Message that are validated
ProtoMessages == { "RouteRule", "DestinationPolicy" }

\* a message, and a nil pointer of a message type
Message(type, d, r, hf, lf) ==
    [ type |-> type, isNil |-> FALSE, Destination |-> d, Route |-> r,
      HttpFault |-> hf, L4Fault |-> lf ]
TypedNil(type) ==
    [ type |-> type, isNil |-> TRUE, Destination |-> << >>, Route |-> NilSlice,
      HttpFault |-> NilHTTPFault, L4Fault |-> NilL4Fault ]
ValidFQDN == << "a", ".", "b", "-", "1" >>
Messages ==
    { Message("DestinationPolicy", d, NilSlice, NilHTTPFault, NilL4Fault) :
        d \in FQDNs } \cup
    { Message("RouteRule", d, r, NilHTTPFault, NilL4Fault) :
        d \in FQDNs, r \in RouteLists } \cup
    { Message("RouteRule", ValidFQDN, r, NilHTTPFault, NilL4Fault) :
        r \in RouteListsWithNil } \cup
    { Message("RouteRule", ValidFQDN, NilSlice, hf, NilL4Fault) :
        hf \in HTTPFaults } \cup
    { Message("RouteRule", ValidFQDN, NilSlice, NilHTTPFault, lf) :
        lf \in L4Faults } \cup
    { TypedNil("RouteRule"), TypedNil("DestinationPolicy") }

\* what the exported validators of sub-messages are given
SubMessages ==
    { [ type |-> "HTTPFaultInjection", fault |-> hf ] : hf \in HTTPFaults } \cup
    { [ type |-> "L4FaultInjection", fault |-> lf ] : lf \in L4Faults } \cup
    { [ type |-> "DestinationWeight", dw |-> dw ] :
        dw \in { NilDW } \cup
               { [ isNil |-> FALSE, Destination |-> d, Tags |-> { }, Weight |-> w ] :
                    d \in FQDNs, w \in Weights } }

\* the longest string of the alphabet below that validateFQDN is given
MaxChars == 4

\* n times the character c
Rep(c, n) == [ i \in 1..n |-> c ]

\* the strings over alphabet of length n or less
StringsUpTo(alphabet, n) == UNION { [ 1..k -> alphabet ] : k \in 0..n }

\* domain names: every short string of a letter, a capital, a hyphen and a
\* dot; labels of 63 and 64 characters; names of 255 and 256 characters
\* whose labels are all valid
LongNames ==
    { Rep("a", 63), Rep("a", 64),
      << "b", "." >> \o Rep("a", 64) \o << ".", "c" >>,
      Rep("a", 63) \o << "." >> \o Rep("b", 63) \o << "." >> \o Rep("c", 63)
          \o << "." >> \o Rep("d", 63),
      Rep("a", 63) \o << "." >> \o Rep("b", 63) \o << "." >> \o Rep("c", 63)
          \o << "." >> \o Rep("d", 61) \o << ".", "e", "0" >>,
      Rep("A", 256) }
Names ==
    { [ type |-> "FQDN", s |-> n ] :
        n \in StringsUpTo({ "a", "B", "-", "." }, MaxChars) \cup LongNames }

\* the elements of seq joined by the separator sep
RECURSIVE Join(_, _)
Join(seq, sep) ==
    IF seq = << >> THEN << >>
    ELSE IF Len(seq) = 1 THEN Head(seq)
    ELSE Head(seq) \o << sep >> \o Join(Tail(seq), sep)

\* subnets: an address of three to five octets, in and out of range or no
\* number at all, followed by no, one or two suffixes
Octets == { << "0" >>, << "2", "5", "5" >>, << "2", "5", "6" >>, << "-", "1" >>,
            << "x" >>, << >> }
Suffixes == { << "0" >>, << "1" >>, << "3", "2" >>, << "3", "3" >>, << "-", "8" >>,
              << "+", "8" >>, << "x" >>, << >> }
Addresses ==
    [ 1..4 -> Octets ] \cup
    { << << "1" >>, << "2" >>, << "3" >> >>,
      << << "1" >>, << "2" >>, << "3" >>, << "4" >>, << "5" >> >>,
      << << "0", "1", "0" >>, << "+", "1" >>, << "-", "0" >>, << "9" >> >> }
Subnets ==
    { [ type |-> "Subnet", addr |-> a, bits |-> b ] :
        a \in Addresses,
        b \in { << >> } \cup { << x >> : x \in Suffixes }
              \cup { << << "8" >>, << "8" >> >> } }
\* the string that is validated
SubnetString(subnet) ==
    Join(<< Join(subnet.addr, ".") >> \o subnet.bits, "/")

\* the most ports of a service that Service.Validate is given
MaxPorts == 2

\* services: hostnames valid, empty and with invalid parts; ports with
\* names valid, repeated, empty and invalid, and numbers valid and negative
PortNames == { << >>, << "h" >>, << "g" >>, << "-" >> }
\* Port.Port is an int: numbers below, at and above the ends of 0..65535
PortNumbers == { -1, 0, 80, 65535, 65536 }
PortValues ==
    { [ isNil |-> FALSE, Name |-> n, Port |-> p, Protocol |-> "HTTP" ] :
        n \in PortNames, p \in PortNumbers }
ServiceValues ==
    { [ type |-> "Service", isNil |-> FALSE, Hostname |-> h, Ports |-> ps ] :
        h \in FQDNs, ps \in UNION { [ 1..n -> PortValues ] : n \in 0..MaxPorts } }

\* the mock registry: its services and the instances it returns for them
MockChars ==
    [ hello |-> << "h", "e", "l", "l", "o", ".", "d", "e", "f", "a", "u", "l", "t", ".", "s", "v", "c", ".", "c", "l", "u", "s", "t", "e", "r", ".", "l", "o", "c", "a", "l" >>,
      world |-> << "w", "o", "r", "l", "d", ".", "d", "e", "f", "a", "u", "l", "t", ".", "s", "v", "c", ".", "c", "l", "u", "s", "t", "e", "r", ".", "l", "o", "c", "a", "l" >> ]
MockService(h) ==
    [ isNil |-> FALSE, Hostname |-> MockChars[h],
      Ports |-> [ i \in DOMAIN ServicePorts[h] |->
                    [ isNil |-> FALSE, Name |-> << "h", "t", "t", "p" >>,
                      Port |-> ServicePorts[h][i].port, Protocol |-> "HTTP" ] ] ]
MockInstances ==
    { [ type |-> "ServiceInstance",
        Service |-> MockService(AllInstances[i].service),
        Tags |-> { << << "v", "e", "r", "s", "i", "o", "n" >>, << "v", "1" >> >> },
        Endpoint |-> [ Port |-> AllInstances[i].port,
                       ServicePort |-> MockService(AllInstances[i].service).Ports[1] ] ] :
        i \in DOMAIN AllInstances }

\* instances: of no service, of a service that is valid, invalid, or has
\* two ports of one name; tags that match and do not; endpoint ports
\* valid and negative; service ports absent, of the service, and off by
\* name, number or protocol
PortOf(n, p, proto) == [ isNil |-> FALSE, Name |-> n, Port |-> p, Protocol |-> proto ]
InstanceServices ==
    { NilService,
      [ isNil |-> FALSE, Hostname |-> ValidFQDN,
        Ports |-> << PortOf(<< "h" >>, 80, "HTTP"), PortOf(<< "g" >>, 81, "TCP") >> ],
      [ isNil |-> FALSE, Hostname |-> ValidFQDN,
        Ports |-> << PortOf(<< "h" >>, 80, "HTTP"), PortOf(<< "h" >>, 81, "TCP") >> ],
      [ isNil |-> FALSE, Hostname |-> << >>,
        Ports |-> << PortOf(<< "h" >>, 80, "HTTP") >> ] }
InstanceTags ==
    { { }, { << << "v", "e", "r", "s", "i", "o", "n" >>, << "v", "1" >> >> }, { << << "a", " ", "b" >>, << "v", "1" >> >> },
      { << << "v", "e", "r", "s", "i", "o", "n" >>, << "v", "1", "!" >> >>, << << "A", "_", ".", "/", "-" >>, << >> >> },
      { << << "?" >>, << "?" >> >>, << << "v", "e", "r", "s", "i", "o", "n" >>, << "#" >> >> } }
ServicePortChoices ==
    { NilPort } \cup
    { PortOf(n, p, proto) : n \in { << "h" >>, << "g" >>, << "x" >> },
                            p \in { 80, 81 }, proto \in { "HTTP", "TCP" } }
InstanceValues ==
    MockInstances \cup
    { [ type |-> "ServiceInstance", Service |-> svc, Tags |-> t,
        Endpoint |-> [ Port |-> p, ServicePort |-> sp ] ] :
        svc \in InstanceServices, t \in InstanceTags, p \in { 80, -1 },
        sp \in ServicePortChoices }

\* keys: absent; of a kind that is declared, undeclared, or no label; of a
\* name and a namespace that are labels or not
NilKey == [ isNil |-> TRUE, Kind |-> << >>, Name |-> << >>, Namespace |-> << >> ]
KeyValues ==
    { NilKey } \cup
    { [ isNil |-> FALSE, Kind |-> kind, Name |-> name, Namespace |-> ns ] :
        kind \in { RouteRuleKind, DestinationPolicyKind, << "o" >>, << "K", "_" >> },
        name \in { << "n" >>, << "N" >> },
        ns \in { << "d" >>, << >> } }
\* objects: nil, no proto message, and messages valid and invalid of each
\* type, nil pointers included
ObjectValues ==
    { [ is |-> "nil", v |-> TypedNil("none") ],
      [ is |-> "string", v |-> TypedNil("none") ] } \cup
    { [ is |-> "proto.Message", v |-> m ] :
        m \in { TypedNil("RouteRule"), TypedNil("DestinationPolicy") } \cup
              { Message(t, d, NilSlice, NilHTTPFault, NilL4Fault) :
                  t \in ProtoMessages, d \in FQDNs } }
Configs ==
    { [ type |-> "Config", key |-> k, obj |-> o ] :
        k \in KeyValues, o \in ObjectValues }

NoMessage == [ type |-> "none" ]

\* no validator is exercised
ValidationOff ==
    /\ vrev = "validation.go" /\ vmsg = NoMessage /\ vfn = "none"
    /\ verrs = << >> /\ vpanic = FALSE

\* an input is about to be validated
ValidationInit ==
    /\ vrev \in Revisions
    /\ \/ vmsg \in Messages
       \/ vmsg \in SubMessages
       \/ vmsg \in Names
       \/ vmsg \in Subnets
       \/ vmsg \in ServiceValues
       \/ vmsg \in Configs
       \/ vmsg \in InstanceValues
    /\ vfn = "none"
    /\ verrs = << >>
    /\ vpanic = FALSE

\* the call of validator fn on the input returns errs, unless it panics
Return(fn, panics, errs) ==
    /\ vfn = "none"
    /\ vfn' = fn
    /\ vpanic' = panics
    /\ verrs' = IF panics THEN << >> ELSE errs
    /\ ValidationOnly
    /\ UNCHANGED << vrev, vmsg >>

\* err := ValidateRouteRule(msg)
CallValidateRouteRule ==
    /\ vmsg.type \in ProtoMessages
    /\ Return("ValidateRouteRule", RouteRuleNilDeref(vmsg),
              ValidateRouteRule(vrev, vmsg))

\* err := ValidateIngressRule(msg)
CallValidateIngressRule ==
    /\ vmsg.type \in ProtoMessages
    /\ Return("ValidateIngressRule", RouteRuleNilDeref(vmsg),
              ValidateIngressRule(vrev, vmsg))

\* err := ValidateDestinationPolicy(msg)
CallValidateDestinationPolicy ==
    /\ vmsg.type \in ProtoMessages
    /\ Return("ValidateDestinationPolicy", DestinationPolicyNilDeref(vmsg),
              ValidateDestinationPolicy(vrev, vmsg))

\* err := ValidateDestinationWeight(dw)
CallValidateDestinationWeight ==
    /\ vmsg.type = "DestinationWeight"
    /\ Return("ValidateDestinationWeight", DestinationWeightNilDeref(vmsg.dw),
              ValidateDestinationWeight(vrev, vmsg.dw))

\* err := ValidateHTTPFault(fault)
CallValidateHTTPFault ==
    /\ vmsg.type = "HTTPFaultInjection"
    /\ Return("ValidateHTTPFault", FALSE, ValidateHTTPFault(vrev, vmsg.fault))

\* err := ValidateL4Fault(fault)
CallValidateL4Fault ==
    /\ vmsg.type = "L4FaultInjection"
    /\ Return("ValidateL4Fault", FALSE, ValidateL4Fault(vrev, vmsg.fault))

\* err := validateFQDN(fqdn)
CallValidateFQDN ==
    /\ vmsg.type = "FQDN"
    /\ Return("validateFQDN", FALSE, validateFQDN(vmsg.s))

\* err := validateSubnet(subnet)
CallValidateSubnet ==
    /\ vmsg.type = "Subnet"
    /\ Return("validateSubnet", FALSE, validateSubnet(SubnetString(vmsg)))

\* err := s.Validate()
CallServiceValidate ==
    /\ vmsg.type = "Service"
    /\ Return("Service.Validate", FALSE, ServiceValidate(vmsg))

\* err := instance.Validate()
CallServiceInstanceValidate ==
    /\ vmsg.type = "ServiceInstance"
    /\ \E order \in RangeOrders(vmsg.Tags) :
          Return("ServiceInstance.Validate", FALSE,
                 ServiceInstanceValidate(vmsg, order))

\* err := km.ValidateConfig(k, obj), for the kinds declared
CallValidateConfig ==
    /\ vmsg.type = "Config"
    /\ Return("ValidateConfig", ValidateConfigNilDeref(IstioConfig, vmsg.key, vmsg.obj),
              ValidateConfig(IstioConfig, vrev, vmsg.key, vmsg.obj))

ValidateNext ==
    \/ CallValidateConfig
    \/ CallServiceValidate
    \/ CallServiceInstanceValidate
    \/ CallValidateFQDN
    \/ CallValidateSubnet
    \/ CallValidateRouteRule
    \/ CallValidateIngressRule
    \/ CallValidateDestinationPolicy
    \/ CallValidateDestinationWeight
    \/ CallValidateHTTPFault
    \/ CallValidateL4Fault

(***************************************************************************)
(* The watcher and its agent: values and initial state.                    *)
(***************************************************************************)
\* the number of events the controller takes up: where spawns succeed, and
\* where they can fail
MaxEvents == 3
MaxEventsFailing == 2

\* proxy.NewAgent(runEnvoy(..), cleanupEnvoy(..), 10, 100*time.Millisecond):
\* the retry budget and the base delay, in milliseconds
MaxRetries == 10
InitialInterval == 100

IngressRule == "ingress-rule"                 \* model.IngressRule
\* the kinds of event a controller has: services, instances, and one per
\* config kind
EventKinds == { "service", "instance", RouteRule, DestinationPolicy, IngressRule }
\* a watcher that appends no handler for destination policies
WatcherKindsNoPolicy == { "service", "instance", RouteRule }
\* NewWatcher: the kinds it appends a handler for
WatcherKinds == { "service", "instance", RouteRule, DestinationPolicy }

\* what the context can hold, as far as Generate can tell
Views == { "A", "B", "C" }

\* a *Config: the object (id) and what it holds (value); nil
None == [ id |-> 0, value |-> "none" ]
\* Generate(w.context): a new object that is a function of the context
Generate(context, n) == [ id |-> n, value |-> context ]

\* the comparison by identity
SameObject(a, b) == a.id = b.id
\* reflect.DeepEqual on two configs: the comparison by value
DeepEqual(a, b) == a.value = b.value

\* the mailbox keeps the first update
KeepFirst(box, c) == IF box = None THEN c ELSE box
\* an update that arrives while the agent is inside a spawn is lost
DepositUnlessBusy(box, c) == IF apc \in { "write", "exec" } THEN box ELSE c
\* the single-slot mailbox: the last writer wins
Deposit(box, c) == c

Digits == << "0", "1", "2", "3", "4", "5", "6", "7", "8", "9" >>
\* fmt.Sprint(n) and %d for n >= 0
RECURSIVE Itoa(_)
Itoa(n) == IF n < 10 THEN << Digits[n + 1] >>
           ELSE Itoa(n \div 10) \o << Digits[(n % 10) + 1] >>

ConfigPath == "/etc/envoy"
\* the file name without the epoch
configFileFixed(dir, e) == << dir, "/envoy-rev", ".json" >>
\* fmt.Sprintf(EpochFileTemplate, config, epoch), "%s/envoy-rev%d.json"
configFile(dir, e) == << dir, "/envoy-rev" >> \o Itoa(e) \o << ".json" >>

\* the delay before retry n = 1, 2, ..: it doubles from InitialInterval
BackoffDelay(n) == InitialInterval * (2 ^ (n - 1))

NoEvent == [ kind |-> "none", generated |-> << >>, scheduled |-> << >>,
             cleared |-> FALSE ]
NoCleanup == "none"

\* a faulty NewWatcher in which out.reload() is not commented out: it
\* generates a config from the current view and submits it
InitialReloadDone == << Generate("A", 1) >>

\* NewWatcher, "// out.reload()": the configs it generates and submits
\* before it appends its handlers
InitialReload == << >>

\* the state after NewWatcher has returned; spawns do as mode says
WatcherInit(mode) ==
    /\ wreg = "A"
    /\ wpc = "new" /\ cpc = "new"
    /\ ngen = Len(InitialReload)
    /\ ev = NoEvent /\ nev = 0
    /\ stop = FALSE
    /\ mailbox = IF InitialReload = << >> THEN None ELSE InitialReload[Len(InitialReload)]
    /\ apc = "new"
    /\ desired = None /\ accepted = None
    /\ epoch = 0 /\ attempts = 0 /\ delay = 0 /\ retries = 0
    /\ children = {} /\ files = << >>
    /\ env = mode
    /\ submitted = [ i \in 1..Len(InitialReload) |->
                       [ value |-> InitialReload[i].value, during |-> "none" ] ]
    /\ launched = << >>
    /\ removed = NoCleanup

(***************************************************************************)
(* Construction.  NewDiscoveryService and NewWatcher append their handlers *)
(* to the controller one after the other; an Append..Handler call of the   *)
(* controller (model.Controller) appends the handler and returns nil, or   *)
(* returns an error.                                                       *)
(***************************************************************************)
Constructors == { "NewDiscoveryService", "NewWatcher" }

\* a faulty order of registration: the config handlers first
AppendOrderConfigFirst ==
    [ c \in Constructors |-> << RouteRule, DestinationPolicy, "service", "instance" >> ]

\* the handlers a constructor appends, in the order of its statements:
\* AppendServiceHandler, AppendInstanceHandler, AppendConfigHandler(RouteRule),
\* AppendConfigHandler(DestinationPolicy)
AppendOrder ==
    [ c \in Constructors |-> << "service", "instance", RouteRule, DestinationPolicy >> ]

NotReturned == [ returned |-> FALSE ]

\* return nil, err
ReturnErr(err) == [ returned |-> TRUE, out |-> "nil", err |-> err ]

\* return out, nil
ReturnOut(c) == [ returned |-> TRUE, out |-> c, err |-> "nil" ]

\* the error the controller returns when it refuses the handler for kind
AppendError(c, kind) == << "cannot append handler", c, kind >>

\* no constructor has been called
NewInit ==
    /\ handlers = << >>
    /\ building = [ c \in Constructors |-> [ n |-> 0, ret |-> NotReturned ] ]
    /\ run = [ pc |-> "none" ]

\* both constructors have returned their object
Constructed ==
    /\ handlers = [ i \in 1..8 |->
                      IF i <= 4 THEN [ kind |-> AppendOrder["NewDiscoveryService"][i],
                                       of |-> "NewDiscoveryService" ]
                      ELSE [ kind |-> AppendOrder["NewWatcher"][i - 4],
                             of |-> "NewWatcher" ] ]
    /\ building = [ c \in Constructors |-> [ n |-> 4, ret |-> ReturnOut(c) ] ]
    /\ run = [ pc |-> "none" ]

\* the constructor is at its next registration
Registering(c) == ~building[c].ret.returned /\ building[c].n < Len(AppendOrder[c])

\* if err := ctl.Append..Handler(..); err != nil { .. }: the call succeeds
AppendHandler(c) ==
    /\ Registering(c)
    /\ handlers' = Append(handlers, [ kind |-> AppendOrder[c][building[c].n + 1], of |-> c ])
    /\ building' = [building EXCEPT ![c].n = @ + 1]
    /\ ConstructionOnly

\* if err := ctl.Append..Handler(..); err != nil { return nil, err }
AppendHandlerFails(c) ==
    /\ Registering(c)
    /\ building' = [building EXCEPT ![c].ret =
                       ReturnErr(AppendError(c, AppendOrder[c][building[c].n + 1]))]
    /\ handlers' = handlers
    /\ ConstructionOnly

\* return out, nil
ConstructorReturns(c) ==
    /\ ~building[c].ret.returned
    /\ building[c].n = Len(AppendOrder[c])
    /\ building' = [building EXCEPT ![c].ret = ReturnOut(c)]
    /\ handlers' = handlers
    /\ ConstructionOnly

NewNext ==
    \/ \E c \in Constructors : AppendHandler(c)
    \/ \E c \in Constructors : AppendHandlerFails(c)
    \/ \E c \in Constructors : ConstructorReturns(c)

Init == InitAs("conc") /\ CacheInit /\ WatcherInit("ok") /\ ValidationOff /\ Constructed
InitSeq == InitAs("seq") /\ CacheInit /\ WatcherInit("ok") /\ ValidationOff /\ Constructed

\* the state in which nothing but the single cache is exercised
InitCache ==
    /\ InitAs("cache")
    /\ ~ds.sdsCache.disabled
    /\ services = { "hello" }
    /\ config = {}
    /\ CacheInit
    /\ WatcherInit("ok")
    /\ ValidationOff
    /\ Constructed

\* the state in which nothing but the watcher and its agent is exercised
InitWatcher ==
    /\ InitAs("watcher")
    /\ ~ds.sdsCache.disabled
    /\ services = { "hello" }
    /\ config = {}
    /\ CacheInit
    /\ \E mode \in { "ok", "fail", "any" } : WatcherInit(mode)
    /\ ValidationOff
    /\ Constructed

\* the state in which nothing but the validators is exercised
InitValidate ==
    /\ InitAs("validate")
    /\ ~ds.sdsCache.disabled
    /\ services = { "hello" }
    /\ config = {}
    /\ CacheInit
    /\ WatcherInit("ok")
    /\ ValidationInit
    /\ Constructed

(***************************************************************************)
(* Request handlers.                                                       *)
(***************************************************************************)
CacheOf == [ registration |-> "sdsCache", clusters |-> "cdsCache", routes |-> "rdsCache" ]

OthersBusy(w) == \E v \in Workers \ {w} : pc[v] = "store"
AnyBusy == \E v \in Workers : pc[v] = "store"

\* net/http starts a goroutine per request: which one serves a request is
\* immaterial, so a request is given to g1 unless g1 is busy
FirstIdle(w) == w = "g1" \/ pc["g1"] # "idle"

\* under "seq", an operation takes a step only when no other operation is
\* in progress: no other request, no handler (h), no stats reset (s)
Turn(busy, h, s) ==
    sched = "seq" => ~busy /\ (h => hpc = 0) /\ (s => spc = 0)

\* the environment issues one more operation
Issue ==
    /\ nops < (IF sched = "seq" THEN MaxSeqOps ELSE MaxOps)
    /\ nops' = nops + 1

\* the history variables after a step: t and r under "seq"
History(t, r) ==
    /\ tally' = IF sched = "seq" THEN t ELSE tally
    /\ reads' = IF sched = "seq" THEN r ELSE reads

\* the request is answered from the cache (writeResponse after a hit)
Hit(w, url, data) ==
    /\ resp' = writeResponse(url, data, TRUE)
    /\ History([tally EXCEPT ![url].hit = @ + 1], [reads EXCEPT ![url] = @ + 1])
    /\ UNCHANGED << pc, req, out, denied >>

\* the request missed and has computed data, which it will store next
Miss(w, url, data) ==
    /\ pc' = [pc EXCEPT ![w] = "store"]
    /\ req' = [req EXCEPT ![w] = url]
    /\ out' = [out EXCEPT ![w] = data]
    /\ History(tally, reads)
    /\ resp' = NoResponse
    /\ UNCHANGED denied

\* the request missed and is answered with an error (errorResponse; return)
Fail(w, url, status, msg) ==
    /\ resp' = errorResponse(url, status, msg)
    /\ History(tally, reads)
    /\ denied' = denied \cup {url}
    /\ UNCHANGED << pc, req, out >>

\* what every first step of a request handler does besides the lookup
Begin(w) ==
    /\ pc[w] = "idle"
    /\ FirstIdle(w)
    /\ Turn(OthersBusy(w), TRUE, TRUE)
    /\ Issue
    /\ ServiceOnly
    /\ UNCHANGED << services, instances, config, pending, hpc, spc,
                    changed, clearedIn >>

\* DiscoveryService.ListEndpoints, up to the recompute
ListEndpointsLookup(w, url) ==
    /\ Begin(w)
    /\ LET r == cachedDiscoveryResponse(ds.sdsCache, CacheKey(url))
       IN /\ ds' = [ds EXCEPT !.sdsCache = r.c]
          /\ IF r.cached THEN Hit(w, url, r.data)
             ELSE Miss(w, url, EndpointsBody(services, instances, url))

\* DiscoveryService.ListClusters, up to the recompute
ListClustersLookup(w, url) ==
    /\ Begin(w)
    /\ LET r == cachedDiscoveryResponse(ds.cdsCache, CacheKey(url))
       IN /\ ds' = [ds EXCEPT !.cdsCache = r.c]
          /\ IF r.cached THEN Hit(w, url, r.data)
             ELSE IF PathParameter(url, "service-cluster") # MeshCluster
             THEN Fail(w, url, StatusNotFound, "Unexpected service-cluster")
             ELSE \E order \in MapOrders(RouteConfigs(services, instances, config, url)) :
                     Miss(w, url, ClustersBody(services, instances, config, url, order))

\* routeConfig, ok := httpRouteConfigs[port], with ok ignored: a missing
\* port yields the zero value, a nil route config
routeConfigUnchecked(httpRouteConfigs, port) ==
    [ ok |-> TRUE,
      routeConfig |-> IF port \in DOMAIN httpRouteConfigs THEN httpRouteConfigs[port]
                      ELSE [ json |-> "null" ] ]

\* routeConfig, ok := httpRouteConfigs[port]
routeConfigFor(httpRouteConfigs, port) ==
    IF port \in DOMAIN httpRouteConfigs
    THEN [ ok |-> TRUE, routeConfig |-> httpRouteConfigs[port] ]
    ELSE [ ok |-> FALSE, routeConfig |-> [ json |-> "null" ] ]

\* DiscoveryService.ListRoutes, up to the recompute
ListRoutesLookup(w, url) ==
    /\ Begin(w)
    /\ LET r == cachedDiscoveryResponse(ds.rdsCache, CacheKey(url))
           port == Atoi(PathParameter(url, "route-config-name"))
           httpRouteConfigs == RouteConfigs(services, instances, config, url)
           found == routeConfigFor(httpRouteConfigs, port.val)
       IN /\ ds' = [ds EXCEPT !.rdsCache = r.c]
          /\ IF r.cached THEN Hit(w, url, r.data)
             ELSE IF PathParameter(url, "service-cluster") # MeshCluster
             THEN Fail(w, url, StatusNotFound, "Unexpected service-cluster")
             ELSE IF port.err
             THEN Fail(w, url, StatusNotFound, "Unexpected route-config-name")
             ELSE IF ~found.ok
             THEN Fail(w, url, StatusNotFound, "Missing route config for port")
             ELSE Miss(w, url, found.routeConfig)

\* the end of ListEndpoints, ListClusters and ListRoutes after a miss:
\* updateCachedDiscoveryResponse(key, out) on the handler's cache, then
\* writeResponse(response, out)
StoreResponse(w) ==
    /\ pc[w] = "store"
    /\ Turn(OthersBusy(w), TRUE, TRUE)
    /\ LET url == req[w]
           f == CacheOf[url.route]
       IN /\ ds' = [ds EXCEPT ![f] = updateCachedDiscoveryResponse(@, CacheKey(url), out[w])]
          /\ resp' = writeResponse(url, out[w], FALSE)
          /\ History([tally EXCEPT ![url].miss = @ + 1], [reads EXCEPT ![url] = @ + 1])
    /\ pc' = [pc EXCEPT ![w] = "idle"]
    /\ req' = [req EXCEPT ![w] = NoRequest]
    /\ out' = [out EXCEPT ![w] = NilBytes]
    /\ ServiceOnly
    /\ UNCHANGED << services, instances, config, pending, hpc, spc,
                    nops, changed, clearedIn, denied >>

(***************************************************************************)
(* Registry and rule-store changes.  The registry is the source of truth:  *)
(* it changes first, and the controller calls the handlers later.          *)
(***************************************************************************)
EventTags == { "add", "update", "delete" }      \* model.Event

\* the event kinds for which NewDiscoveryService appends a handler
RegisteredKinds == { "service", "instance", RouteRule, DestinationPolicy }

\* what every change does besides changing the registry: the controller
\* owes a call to the handler appended for the kind of the event
Queue(kind, tag) ==
    /\ Issue
    /\ pending' = IF kind \in RegisteredKinds THEN pending + 1 ELSE pending
    /\ changed' = (changed \/ tag # "update")
    /\ resp' = NoResponse
    /\ ServiceOnly
    /\ UNCHANGED << ds, pc, req, out, hpc, spc, tally, reads, clearedIn, denied >>

\* a service is added, updated (nothing the proxies see changes) or deleted
ServiceEvent(tag) ==
    /\ CASE tag = "add" -> "world" \notin services /\ services' = services \cup {"world"}
         [] tag = "delete" -> "world" \in services /\ services' = services \ {"world"}
         [] tag = "update" -> services' = services
    /\ Queue("service", tag)
    /\ UNCHANGED << instances, config >>

\* an instance is added, updated or deleted
InstanceEvent(tag) ==
    /\ CASE tag = "add" -> 2 \notin instances /\ instances' = instances \cup {2}
         [] tag = "delete" -> 2 \in instances /\ instances' = instances \ {2}
         [] tag = "update" -> instances' = instances
    /\ Queue("instance", tag)
    /\ UNCHANGED << services, config >>

\* a rule of the kind is added, updated or deleted
ConfigEvent(kind, tag) ==
    /\ CASE tag = "add" -> kind \notin config /\ config' = config \cup {kind}
         [] tag = "delete" -> kind \in config /\ config' = config \ {kind}
         [] tag = "update" -> kind \in config /\ config' = config
    /\ Queue(kind, tag)
    /\ UNCHANGED << services, instances >>

(***************************************************************************)
(* The handlers NewDiscoveryService appends to the controller, and the     *)
(* cache-statistics admin route.                                           *)
(***************************************************************************)
\* a faulty clearCache that forgets the RDS cache
clearCacheTwo == << "sdsCache", "cdsCache" >>

\* DiscoveryService.clearCache: the caches it clears, in order
clearCacheOrder == << "sdsCache", "cdsCache", "rdsCache" >>

\* DiscoveryService.ClearCacheStats: the caches it resets, in order
resetStatsOrder == << "sdsCache", "cdsCache", "rdsCache" >>

\* serviceHandler / instanceHandler / configHandler is called for an event
\* (all three ignore the event) and clearCache clears its first cache
HandleEvent ==
    /\ hpc = 0
    /\ pending > 0
    /\ pending' = pending - 1
    /\ ds' = [ds EXCEPT ![clearCacheOrder[1]] = clear(@)]
    /\ clearedIn' = { clearCacheOrder[1] }
    /\ hpc' = IF Len(clearCacheOrder) = 1 THEN 0 ELSE 1
    /\ Turn(AnyBusy, FALSE, TRUE)
    /\ History(tally, IF hpc' = 0 THEN NoReads ELSE reads)
    /\ resp' = NoResponse
    /\ ServiceOnly
    /\ UNCHANGED << services, instances, config, pc, req, out, spc,
                    nops, changed, denied >>

\* clearCache clears its next cache; after the last one the handler returns
clearCache ==
    /\ hpc # 0
    /\ ds' = [ds EXCEPT ![clearCacheOrder[hpc + 1]] = clear(@)]
    /\ clearedIn' = clearedIn \cup { clearCacheOrder[hpc + 1] }
    /\ hpc' = IF hpc + 1 = Len(clearCacheOrder) THEN 0 ELSE hpc + 1
    /\ Turn(AnyBusy, FALSE, TRUE)
    /\ History(tally, IF hpc' = 0 THEN NoReads ELSE reads)
    /\ resp' = NoResponse
    /\ ServiceOnly
    /\ UNCHANGED << services, instances, config, pc, req, out, pending,
                    spc, nops, changed, denied >>

\* DiscoveryService.ClearCacheStats (POST /cache_stats_delete): resetStats
\* on the next cache; after the last one the request returns
ClearCacheStats ==
    /\ IF spc = 0 THEN Issue ELSE nops' = nops
    /\ spc' = IF spc + 1 = Len(resetStatsOrder) THEN 0 ELSE spc + 1
    /\ Turn(AnyBusy, TRUE, FALSE)
    /\ LET f == resetStatsOrder[spc + 1]
       IN /\ ds' = [ds EXCEPT ![f] = resetStats(@)]
          /\ History([ u \in URLs |->
                         IF CacheOf[u.route] = f THEN [ hit |-> 0, miss |-> 0 ]
                         ELSE tally[u] ], reads)
    /\ resp' = NoResponse
    /\ ServiceOnly
    /\ UNCHANGED << services, instances, config, pc, req, out, pending,
                    hpc, changed, clearedIn, denied >>

Next ==
    \/ \E w \in Workers, url \in SdsURLs : ListEndpointsLookup(w, url)
    \/ \E w \in Workers, url \in CdsURLs : ListClustersLookup(w, url)
    \/ \E w \in Workers, url \in RdsURLs : ListRoutesLookup(w, url)
    \/ \E w \in Workers : StoreResponse(w)
    \/ \E tag \in EventTags : ServiceEvent(tag)
    \/ \E tag \in EventTags : InstanceEvent(tag)
    \/ \E kind \in ConfigKinds, tag \in EventTags : ConfigEvent(kind, tag)
    \/ HandleEvent
    \/ clearCache
    \/ ClearCacheStats


\* the service under concurrent requests, handlers and admin calls
Spec == Init /\ [][Next]_vars

\* the service when operations are issued one at a time
SpecSeq == InitSeq /\ [][Next]_vars

\* one cache under concurrent callers, statement by statement
SpecCache == InitCache /\ [][CacheNext]_vars

\* the statistics of one cache read and reset concurrently
SpecStats == InitCache /\ [][StatsNext]_vars

(***************************************************************************)
(* The watcher and its agent: steps.                                       *)
(*                                                                         *)
(* watcher.Run, watcher.reload, runEnvoy and cleanupEnvoy are the          *)
(* watcher's code.  The controller (model.Controller) and the agent        *)
(* (proxy.Agent) are given by their contracts: the controller calls the    *)
(* handlers of an event one after another and takes up the next event      *)
(* when they have returned; the agent keeps the latest update in a         *)
(* single-slot mailbox and reconciles desired against accepted, one spawn  *)
(* at a time.  A spawn is a call of runEnvoy: it succeeds when the child   *)
(* has started, and fails on a write error, a start error or a child       *)
(* that exits at once.                                                     *)
(***************************************************************************)
ctlvars == << wreg, wpc, cpc, ngen, ev, nev >>
agentvars == << apc, desired, accepted, epoch, attempts, delay, retries, launched >>
osvars == << children, files, removed >>

\* the agent is inside a spawn
Reconciling == apc \in { "write", "exec" }

\* a Run that calls w.ctl.Run(stop) and never starts the agent
WatcherRunWithoutAgent ==
    /\ wpc = "new"
    /\ wpc' = "running"
    /\ cpc' = "idle"
    /\ WatcherOnly
    /\ UNCHANGED << wreg, ngen, ev, nev, stop, mailbox, agentvars, osvars, env, submitted >>

\* watcher.Run: go w.agent.Run(stop), then w.ctl.Run(stop)
WatcherRun ==
    /\ wpc = "new"
    /\ apc' = "launched"
    /\ wpc' = "running"
    /\ cpc' = "idle"
    /\ WatcherOnly
    /\ UNCHANGED << wreg, ngen, ev, nev, stop, mailbox, desired, accepted,
                    epoch, attempts, delay, retries, launched, osvars, env, submitted >>

\* close(stop)
Stop ==
    /\ wpc = "running"
    /\ ~stop
    /\ stop' = TRUE
    /\ WatcherOnly
    /\ UNCHANGED << ctlvars, agentvars, osvars, mailbox, env, submitted >>

\* the registry or the rule store changes and the controller takes up the
\* event: it calls the handler the watcher appended for this kind, if any,
\* reload: config := Generate(w.context); w.agent.ScheduleConfigUpdate(config),
\* and the handler returns (the discovery service clears its caches in the
\* handler it registered)
CtlEvent(kind, view) ==
    /\ cpc = "idle"
    /\ nev < (IF env = "ok" THEN MaxEvents ELSE MaxEventsFailing)
    /\ nev' = nev + 1
    /\ wreg' = view
    /\ IF kind \in WatcherKinds
       THEN LET update == Generate(view, ngen + 1) IN
            /\ ngen' = ngen + 1
            /\ mailbox' = Deposit(mailbox, update)
            /\ submitted' = Append(submitted,
                   [ value |-> update.value,
                     during |-> IF Reconciling THEN desired.value
                                ELSE IF attempts > MaxRetries THEN "poisoned"
                                ELSE "none" ])
            /\ ev' = [ kind |-> kind, generated |-> << update >>,
                       scheduled |-> << update >>,
                       cleared |-> kind \in RegisteredKinds ]
       ELSE /\ ev' = [ kind |-> kind, generated |-> << >>, scheduled |-> << >>,
                       cleared |-> kind \in RegisteredKinds ]
            /\ UNCHANGED << ngen, mailbox, submitted >>
    /\ WatcherOnly
    /\ UNCHANGED << wpc, cpc, stop, agentvars, osvars, env >>

\* w.ctl.Run(stop) returns
CtlReturn ==
    /\ cpc = "idle"
    /\ stop
    /\ cpc' = "returned"
    /\ WatcherOnly
    /\ UNCHANGED << wreg, wpc, ngen, ev, nev, stop, mailbox, agentvars,
                    osvars, env, submitted >>

\* watcher.Run returns: w.ctl.Run(stop) was its last statement
WatcherReturn ==
    /\ wpc = "running"
    /\ cpc = "returned"
    /\ wpc' = "returned"
    /\ WatcherOnly
    /\ UNCHANGED << wreg, cpc, ngen, ev, nev, stop, mailbox, agentvars,
                    osvars, env, submitted >>

\* the goroutine of agent.Run is scheduled and enters its loop
AgentStart ==
    /\ apc = "launched"
    /\ apc' = "Idle"
    /\ WatcherOnly
    /\ UNCHANGED << ctlvars, stop, mailbox, desired, accepted, epoch, attempts,
                    delay, retries, launched, osvars, env, submitted >>

\* the agent reads its mailbox; a config that differs from desired becomes
\* desired and resets the retry counter
AgentReceive ==
    /\ apc \in { "Idle", "Backoff" }
    /\ mailbox # None
    /\ mailbox' = None
    /\ IF DeepEqual(mailbox, desired)
       THEN UNCHANGED << apc, desired, attempts, delay, retries >>
       ELSE /\ desired' = mailbox
            /\ attempts' = 0 /\ delay' = 0 /\ retries' = 0
            /\ apc' = "Idle"
    /\ WatcherOnly
    /\ UNCHANGED << ctlvars, stop, accepted, epoch, launched, osvars, env, submitted >>

\* Idle -> Reconciling: desired differs from accepted and is not poisoned
AgentReconcile ==
    /\ apc = "Idle"
    /\ ~DeepEqual(desired, accepted)
    /\ attempts <= MaxRetries
    /\ apc' = "write"
    /\ WatcherOnly
    /\ UNCHANGED << ctlvars, stop, mailbox, desired, accepted, epoch, attempts,
                    delay, retries, launched, osvars, env, submitted >>

\* cleanupEnvoy(epoch): os.Remove(configFile(ConfigPath, epoch)); a failure
\* is logged only
cleanupEnvoy(fs, e) ==
    [ x \in DOMAIN fs \ { configFile(ConfigPath, e) } |-> fs[x] ]
CleanupOf(fs, e) ==
    IF configFile(ConfigPath, e) \in DOMAIN fs THEN "removed" ELSE "failed"

\* a failed spawn is always followed by another one
SpawnRetriedForever(fs) ==
    /\ attempts' = attempts + 1
    /\ files' = cleanupEnvoy(fs, epoch)
    /\ removed' = CleanupOf(fs, epoch)
    /\ apc' = "Backoff" /\ delay' = BackoffDelay(attempts + 1)
    /\ UNCHANGED << desired, accepted, epoch, retries, launched, children >>

\* a spawn has failed: the counter goes up, the cleanup hook runs, and the
\* agent backs off, or gives the config up when the budget is spent
SpawnFailed(fs) ==
    /\ attempts' = attempts + 1
    /\ files' = cleanupEnvoy(fs, epoch)
    /\ removed' = CleanupOf(fs, epoch)
    /\ IF attempts + 1 <= MaxRetries
       THEN apc' = "Backoff" /\ delay' = BackoffDelay(attempts + 1)
       ELSE apc' = "Idle" /\ delay' = delay
    /\ UNCHANGED << desired, accepted, epoch, retries, launched, children >>

\* runEnvoy: fname := configFile(ConfigPath, epoch);
\* envoyConfig.WriteFile(fname), and return err if it fails
RunWrite(ok) ==
    /\ apc = "write"
    /\ IF ok
       THEN /\ files' = [ x \in DOMAIN files \cup { configFile(ConfigPath, epoch) } |->
                            IF x = configFile(ConfigPath, epoch) THEN desired.value
                            ELSE files[x] ]
            /\ apc' = "exec"
            /\ UNCHANGED << desired, accepted, epoch, attempts, delay, retries,
                            launched, children, removed >>
       ELSE /\ env # "ok"
            /\ SpawnFailed(files)
    /\ WatcherOnly
    /\ UNCHANGED << ctlvars, stop, mailbox, env, submitted >>

\* runEnvoy: args := "-c", fname, "--restart-epoch", fmt.Sprint(epoch), ..
EnvoyArgs(e) == [ c |-> configFile(ConfigPath, e), restartEpoch |-> Itoa(e) ]

\* a child that starts under the epoch of the one before it
RunExecSameEpoch(ok) ==
    /\ apc = "exec"
    /\ ok /\ env # "fail"
    /\ children' = children \cup { [ epoch |-> epoch, args |-> EnvoyArgs(epoch) ] }
    /\ launched' = Append(launched, [ epoch |-> epoch, value |-> desired.value ])
    /\ accepted' = desired
    /\ attempts' = 0 /\ delay' = 0 /\ retries' = 0
    /\ apc' = "Idle"
    /\ WatcherOnly
    /\ UNCHANGED << ctlvars, stop, mailbox, env, submitted, desired, epoch, files,
                    removed >>

\* runEnvoy: cmd.Run().  The child starts, and the reconcile has succeeded:
\* accepted becomes desired, the epoch goes up and the counter is reset; or
\* the child does not start, or exits at once
RunExec(ok) ==
    /\ apc = "exec"
    /\ IF ok
       THEN /\ env # "fail"
            /\ children' = children \cup { [ epoch |-> epoch, args |-> EnvoyArgs(epoch) ] }
            /\ launched' = Append(launched, [ epoch |-> epoch, value |-> desired.value ])
            /\ accepted' = desired
            /\ epoch' = epoch + 1
            /\ attempts' = 0 /\ delay' = 0 /\ retries' = 0
            /\ apc' = "Idle"
            /\ UNCHANGED << desired, files, removed >>
       ELSE /\ env # "ok"
            /\ SpawnFailed(files)
    /\ WatcherOnly
    /\ UNCHANGED << ctlvars, stop, mailbox, env, submitted >>

\* the backoff delay is over: the agent tries again
AgentRetry ==
    /\ apc = "Backoff"
    /\ retries' = retries + 1
    /\ apc' = "write"
    /\ WatcherOnly
    /\ UNCHANGED << ctlvars, stop, mailbox, desired, accepted, epoch, attempts,
                    delay, launched, osvars, env, submitted >>

\* a child that had started exits, on its own; the cleanup hook of its
\* epoch runs
ChildExit(child) ==
    /\ child \in children
    /\ children' = children \ { child }
    /\ files' = cleanupEnvoy(files, child.epoch)
    /\ removed' = CleanupOf(files, child.epoch)
    /\ WatcherOnly
    /\ UNCHANGED << ctlvars, stop, mailbox, agentvars, env, submitted >>

\* agent.Run sees stop between two spawns and returns
AgentStop ==
    /\ apc \in { "Idle", "Backoff" }
    /\ stop
    /\ apc' = "Stopped"
    /\ WatcherOnly
    /\ UNCHANGED << ctlvars, stop, mailbox, desired, accepted, epoch, attempts,
                    delay, retries, launched, osvars, env, submitted >>

\* what the agent's goroutine does
AgentNext ==
    \/ AgentStart
    \/ AgentReceive
    \/ AgentReconcile
    \/ \E ok \in BOOLEAN : RunWrite(ok)
    \/ \E ok \in BOOLEAN : RunExec(ok)
    \/ AgentRetry
    \/ AgentStop

WatcherNext ==
    \/ WatcherRun
    \/ Stop
    \/ \E kind \in EventKinds, view \in Views : CtlEvent(kind, view)
    \/ CtlReturn
    \/ WatcherReturn
    \/ AgentNext
    \/ \E child \in children : ChildExit(child)

\* the watcher, its controller and its agent
SpecWatcher == InitWatcher /\ [][WatcherNext]_vars

\* the same, when the goroutine of the agent keeps being scheduled
SpecWatcherLive == SpecWatcher /\ WF_vars(AgentNext)

\* the validators of package model, applied to one message
SpecValidate == InitValidate /\ [][ValidateNext]_vars

\* the state in which nothing but the constructors is exercised
InitNew ==
    /\ InitAs("new")
    /\ ~ds.sdsCache.disabled
    /\ services = { "hello" }
    /\ config = {}
    /\ CacheInit
    /\ WatcherInit("ok")
    /\ ValidationOff
    /\ NewInit

\* NewDiscoveryService and NewWatcher called on one controller
SpecNew == InitNew /\ [][NewNext]_vars

(***************************************************************************)
(* runEnvoy.  One call of the function runEnvoy returns, with any config   *)
(* and epoch, statement by statement.  Config.WriteFile is not part of the *)
(* sources: it writes the file and returns nil, or returns an error,       *)
(* having created the file or not.  cmd.Run() is os/exec's: it starts the  *)
(* command and waits for it to exit.                                       *)
(***************************************************************************)
\* the epochs runEnvoy is called with
MaxEpoch == 3

\* what the agent may pass as config interface{}: the *Config of a view,
\* or a value of another type
EnvoyConfigs == { [ type |-> "*Config", value |-> v ] : v \in Views }
OtherConfigs == { [ type |-> "string", value |-> "A" ], [ type |-> "nil", value |-> "none" ] }

\* the exit statuses of a child: 0, 1, and death by a signal
ExitStatuses == { 0, 1, -1 }

\* fmt.Errorf("Unexpected config type: %#v", config)
UnexpectedConfigType(c) == [ error |-> "Unexpected config type: %#v", arg |-> c ]

\* the error of a failed WriteFile, of a failed start (*os.PathError,
\* *exec.Error) and of a child that did not exit with 0 (*exec.ExitError)
WriteError == [ error |-> "write" ]
StartError == [ error |-> "start" ]
ExitError(status) == [ error |-> "exit status", status |-> status ]

\* a nil error
NoError == [ error |-> "nil" ]

\* the child of the call: not started, running, or exited with a status
NoChild == [ state |-> "none" ]
Running == [ state |-> "running" ]
Exited(status) == [ state |-> "exited", status |-> status ]

Partial == "partial"

\* the call has returned err
Returned(err) == [run EXCEPT !.pc = "returned", !.err = err]

RunEnvoyInit ==
    \E c \in EnvoyConfigs \cup OtherConfigs, e \in 0..MaxEpoch :
        run = [ pc |-> "called", config |-> c, epoch |-> e, wrote |-> "no",
                child |-> NoChild, err |-> NoError ]

\* envoyConfig, ok := config.(*Config); if !ok { return fmt.Errorf(..) }
RunEnvoyAssert ==
    /\ run.pc = "called"
    /\ run' = IF run.config.type = "*Config" THEN [run EXCEPT !.pc = "write"]
              ELSE Returned(UnexpectedConfigType(run.config))
    /\ RunEnvoyOnly
    /\ UNCHANGED wvars

\* fname := configFile(ConfigPath, epoch);
\* if err := envoyConfig.WriteFile(fname); err != nil { return err }
RunEnvoyWrite(ok, created) ==
    /\ run.pc = "write"
    /\ LET fname == configFile(ConfigPath, run.epoch)
           with(content) == [ x \in DOMAIN files \cup { fname } |->
                                IF x = fname THEN content ELSE files[x] ]
       IN IF ok
          THEN /\ created
               /\ files' = with(run.config.value)
               /\ run' = [run EXCEPT !.pc = "exec", !.wrote = "ok"]
          ELSE /\ files' = IF created THEN with(Partial) ELSE files
               /\ run' = [Returned(WriteError) EXCEPT !.wrote = "failed"]
    /\ RunEnvoyOnly
    /\ UNCHANGED << wreg, wpc, cpc, ngen, ev, nev, stop, mailbox, apc, desired,
                    accepted, epoch, attempts, delay, children, env, submitted,
                    launched, retries, removed >>

\* a faulty end of runEnvoy that starts the child and returns (cmd.Start())
RunEnvoyStartOnly(ok) ==
    /\ run.pc = "exec"
    /\ IF ok
       THEN /\ children' = children \cup { [ epoch |-> run.epoch, args |-> EnvoyArgs(run.epoch) ] }
            /\ run' = [Returned(NoError) EXCEPT !.child = Running]
       ELSE /\ children' = children
            /\ run' = Returned(StartError)
    /\ RunEnvoyOnly
    /\ UNCHANGED << wreg, wpc, cpc, ngen, ev, nev, stop, mailbox, apc, desired,
                    accepted, epoch, attempts, delay, files, env, submitted,
                    launched, retries, removed >>

\* cmd := exec.Command(BinaryPath, args...); return cmd.Run(): the child
\* starts, or Run returns the error of the start
RunEnvoyStart(ok) ==
    /\ run.pc = "exec"
    /\ IF ok
       THEN /\ children' = children \cup { [ epoch |-> run.epoch, args |-> EnvoyArgs(run.epoch) ] }
            /\ run' = [run EXCEPT !.pc = "running", !.child = Running]
       ELSE /\ children' = children
            /\ run' = Returned(StartError)
    /\ RunEnvoyOnly
    /\ UNCHANGED << wreg, wpc, cpc, ngen, ev, nev, stop, mailbox, apc, desired,
                    accepted, epoch, attempts, delay, files, env, submitted,
                    launched, retries, removed >>

\* return cmd.Run(): the child exits, and Run returns nil for status 0 and
\* an *exec.ExitError otherwise
RunEnvoyWait(status) ==
    /\ run.pc = "running"
    /\ children' = children \ { [ epoch |-> run.epoch, args |-> EnvoyArgs(run.epoch) ] }
    /\ run' = [Returned(IF status = 0 THEN NoError ELSE ExitError(status))
                 EXCEPT !.child = Exited(status)]
    /\ RunEnvoyOnly
    /\ UNCHANGED << wreg, wpc, cpc, ngen, ev, nev, stop, mailbox, apc, desired,
                    accepted, epoch, attempts, delay, files, env, submitted,
                    launched, retries, removed >>

RunEnvoyNext ==
    \/ RunEnvoyAssert
    \/ \E ok, created \in BOOLEAN : RunEnvoyWrite(ok, created)
    \/ \E ok \in BOOLEAN : RunEnvoyStart(ok)
    \/ \E status \in ExitStatuses : RunEnvoyWait(status)

\* the state in which nothing but one call of runEnvoy is exercised
InitRunEnvoy ==
    /\ InitAs("runEnvoy")
    /\ ~ds.sdsCache.disabled
    /\ services = { "hello" }
    /\ config = {}
    /\ CacheInit
    /\ WatcherInit("any")
    /\ ValidationOff
    /\ handlers = << >>
    /\ building = [ c \in Constructors |-> [ n |-> 0, ret |-> NotReturned ] ]
    /\ RunEnvoyInit

\* one call of runEnvoy(mesh, ip)(config, epoch)
SpecRunEnvoy == InitRunEnvoy /\ [][RunEnvoyNext]_vars

TypeOK ==
    /\ DOMAIN ds = { "sdsCache", "cdsCache", "rdsCache" }
    /\ \A w \in Workers : pc[w] \in { "idle", "store" }
    /\ hpc \in 0..2 /\ spc \in 0..2
    /\ sched \in { "seq", "conc", "cache", "watcher", "validate" }
    /\ ncalls \in 0..MaxCalls
    /\ mu.r \subseteq Callers /\ mu.w \in Callers \cup { "" }
    /\ DOMAIN entries \subseteq Keys
    /\ nops \in 0..(IF sched = "seq" THEN MaxSeqOps ELSE MaxOps)
    /\ pending \in 0..nops
    /\ wpc \in { "new", "running", "returned" }
    /\ cpc \in { "new", "idle", "returned" }
    /\ apc \in { "new", "launched", "Idle", "write", "exec", "Backoff", "Stopped" }
    /\ env \in { "ok", "fail", "any" }
    /\ nev \in 0..MaxEvents /\ ngen \in 0..nev
    /\ epoch \in 0..ngen /\ attempts \in 0..(MaxRetries + 1)
    /\ mailbox.value \in Views \cup { "none" }
    /\ removed \in { "none", "removed", "failed" }
    /\ vrev \in Revisions
    /\ vpanic \in BOOLEAN /\ (vpanic => verrs = << >>)

(***************************************************************************)
(* What the properties read.                                               *)
(***************************************************************************)
\* o.EnableCaching
CachingEnabled == ~ds.sdsCache.disabled

\* the cache that serves url in the discovery service d, and url's entry
CacheIn(d, url) == d[CacheOf[url.route]].cache
KnownIn(d, url) == CacheKey(url) \in DOMAIN CacheIn(d, url)
EntryIn(d, url) == CacheIn(d, url)[CacheKey(url)]
Known(url) == KnownIn(ds, url)
Entry(url) == EntryIn(ds, url)

\* url's entry holds data
Populated(url) == Known(url) /\ Entry(url).data # NilBytes

\* the step writes a 200 response to a request for url
Answers(url) == resp' # NoResponse /\ resp'.status = StatusOK /\ resp'.url = url

(***************************************************************************)
(* Cache lifecycle.                                                        *)
(***************************************************************************)
\* every key's counters are the numbers of stored recomputations and of
\* answers from stored data since the last reset of its cache
CountersMatch ==
    CachingEnabled =>
        \A u \in URLs :
            IF Known(u)
            THEN Entry(u).hit = tally[u].hit /\ Entry(u).miss = tally[u].miss
            ELSE tally[u].hit = 0 /\ tally[u].miss = 0

\* what a read answered with 200 does to the entry of its URL
ReadEffect ==
    CachingEnabled =>
        \A u \in URLs : Answers(u) =>
            /\ KnownIn(ds', u)
            /\ IF ~Known(u)
               THEN /\ ~resp'.cached
                    /\ EntryIn(ds', u) = [data |-> resp'.body, hit |-> 0, miss |-> 1]
               ELSE IF Entry(u).data # NilBytes
               THEN /\ resp'.cached
                    /\ resp'.body = Entry(u).data
                    /\ EntryIn(ds', u) = [Entry(u) EXCEPT !.hit = @ + 1]
               ELSE /\ ~resp'.cached
                    /\ resp'.body # NilBytes
                    /\ EntryIn(ds', u) =
                          [Entry(u) EXCEPT !.data = resp'.body, !.miss = @ + 1]

\* C1: with caching enabled and requests issued one at a time, every key's
\* miss counter is the number of recomputations stored for it and its hit
\* counter the number of lookups answered from stored data, since the last
\* stats reset; the first read of a key leaves miss=1, hit=0, a read of a
\* populated key adds 1 to hit only, and a read of a cleared key adds 1 to
\* miss only and refills the data of the retained entry.
C1_CacheCounters == []CountersMatch /\ [][ReadEffect]_vars

\* a key read, read again, cleared and read once more: miss=2, hit=1, refilled
C1_Witness ==
    /\ sched = "seq" /\ CachingEnabled
    /\ \E u \in URLs :
          /\ Populated(u)
          /\ Entry(u).miss = 2 /\ Entry(u).hit = 1
          /\ tally[u] = [hit |-> 1, miss |-> 2]

(***************************************************************************)
(* Change notifications.                                                   *)
(***************************************************************************)
AllCaches == { "sdsCache", "cdsCache", "rdsCache" }

\* a handler has run to its end and none is running
HandlerReturned == hpc = 0 /\ clearedIn # {}

\* what the first and the second read after a handled notification do
ReadsAfterNotification ==
    (CachingEnabled /\ HandlerReturned) =>
        \A u \in URLs : Answers(u) =>
            /\ reads[u] = 0 =>
                  /\ ~resp'.cached
                  /\ KnownIn(ds', u)
                  /\ EntryIn(ds', u).data = resp'.body
                  /\ EntryIn(ds', u).miss = (IF Known(u) THEN Entry(u).miss ELSE 0) + 1
                  /\ EntryIn(ds', u).hit = (IF Known(u) THEN Entry(u).hit ELSE 0)
            /\ reads[u] = 1 =>
                  /\ resp'.cached
                  /\ Known(u)
                  /\ resp'.body = Entry(u).data
                  /\ EntryIn(ds', u) = [Entry(u) EXCEPT !.hit = @ + 1]

IsEvent ==
    /\ nops' = nops + 1
    /\ pc' = pc /\ resp' = NoResponse /\ spc' = spc

\* a handler is appended for every kind of event, whatever its tag
HandlerInstalled == IsEvent => pending' = pending + 1

\* the step is one of clearCache's three clears, of cache f
Clears(f) == hpc' # hpc /\ f = clearCacheOrder[hpc + 1]

\* every clear of a handler empties its cache, and the handler returns
\* after the third
HandlerClears ==
    \A f \in AllCaches : Clears(f) =>
        /\ \A k \in DOMAIN ds'[f].cache : ds'[f].cache[k].data = NilBytes
        /\ clearedIn' = (IF hpc = 0 THEN {} ELSE clearedIn) \cup {f}
        /\ hpc' = 0 <=> clearedIn' = AllCaches

\* C3: NewDiscoveryService installs a handler for service events, instance
\* events and RouteRule and DestinationPolicy events; every invocation of
\* one of them, whatever the tag of the event, clears the SDS, the CDS and
\* the RDS cache, and has completed all three clears when it returns.
C3_HandlersClearAll ==
    /\ [][HandlerInstalled /\ HandlerClears]_vars
    /\ [](HandlerReturned => clearedIn = AllCaches)

\* a handler has returned for an update event, having emptied a populated entry
C3_Witness ==
    /\ sched = "conc" /\ HandlerReturned /\ ~changed /\ pending = 0
    /\ clearedIn = AllCaches
    /\ \E u \in RdsURLs : Known(u) /\ Entry(u).data = NilBytes

\* what a clear of cache f leaves as it was and what it empties
ClearFrame(f) ==
    /\ DOMAIN ds'[f].cache = DOMAIN ds[f].cache
    /\ ds'[f].disabled = ds[f].disabled
    /\ \A k \in DOMAIN ds[f].cache :
          ds'[f].cache[k] = [ data |-> NilBytes,
                              hit |-> ds[f].cache[k].hit,
                              miss |-> ds[f].cache[k].miss ]
    /\ \A g \in AllCaches \ {f} : ds'[g] = ds[g]

\* C4: discoveryCache.clear sets the data of every entry to nil and changes
\* nothing else: the keys and every entry's hit and miss counters are as
\* before, so the counters keep accumulating across clears.
C4_ClearKeepsKeysAndCounters ==
    [][\A f \in AllCaches : Clears(f) => ClearFrame(f)]_vars

\* an entry that was read twice and then cleared: its counters survive
C4_Witness ==
    /\ CachingEnabled /\ HandlerReturned
    /\ \E u \in URLs :
          Known(u) /\ Entry(u) = [ data |-> NilBytes, hit |-> 1, miss |-> 1 ]

(***************************************************************************)
(* POST /cache_stats_delete.                                               *)
(***************************************************************************)
\* the step is one of ClearCacheStats' three resets, of cache f
Resets(f) == spc' # spc /\ f = resetStatsOrder[spc + 1]

\* what a reset of cache f leaves as it was and what it zeroes
ResetFrame(f) ==
    /\ DOMAIN ds'[f].cache = DOMAIN ds[f].cache
    /\ ds'[f].disabled = ds[f].disabled
    /\ \A k \in DOMAIN ds[f].cache :
          ds'[f].cache[k] = [ data |-> ds[f].cache[k].data, hit |-> 0, miss |-> 0 ]
    /\ \A g \in AllCaches \ {f} : ds'[g] = ds[g]

\* every counter of every cache is 0
AllCountersZero ==
    \A f \in AllCaches : \A k \in DOMAIN ds[f].cache :
        ds[f].cache[k].hit = 0 /\ ds[f].cache[k].miss = 0

\* when the call returns, every counter is 0
ResetReturns == (spc # 0 /\ spc' = 0) => AllCountersZero'

\* a read of a known key while all counters are 0, as they are right after
\* the reset
ReadAfterReset ==
    (CachingEnabled /\ AllCountersZero) =>
        \A u \in URLs : (Known(u) /\ Answers(u)) =>
            IF Entry(u).data # NilBytes
            THEN /\ resp'.cached
                 /\ EntryIn(ds', u) = [ data |-> Entry(u).data, hit |-> 1, miss |-> 0 ]
            ELSE /\ ~resp'.cached
                 /\ EntryIn(ds', u) = [ data |-> resp'.body, hit |-> 0, miss |-> 1 ]

\* C5: POST /cache_stats_delete sets hit and miss to 0 for every key of
\* the three caches and leaves the keys and the cached data as they were,
\* so that the read right after it is a hit (hit=1, miss=0) on a populated
\* key and a miss (miss=1, hit=0) on a cleared key.
C5_ResetStats ==
    [][ /\ \A f \in AllCaches : Resets(f) => ResetFrame(f)
        /\ ResetReturns
        /\ ReadAfterReset ]_vars

\* a populated key read as a hit right after the reset: hit=1, miss=0
C5_Witness ==
    /\ sched = "seq" /\ CachingEnabled /\ spc = 0
    /\ resp # NoResponse /\ resp.status = StatusOK /\ resp.cached
    /\ Entry(resp.url).hit = 1 /\ Entry(resp.url).miss = 0

(***************************************************************************)
(* Transparency of the cache.                                              *)
(***************************************************************************)
\* the status and body a handler computes for url from the registry and
\* the rule store, the cache left aside
Recomputed(url) ==
    LET ok(body) == [ status |-> StatusOK, body |-> body ]
        notFound(msg) == [ status |-> StatusNotFound,
                           body |-> [ json |-> "error", msg |-> msg ] ]
        configs == RouteConfigs(services, instances, config, url)
        port == Atoi(url.name)
    IN CASE url.route = "registration" ->
              ok(EndpointsBody(services, instances, url))
         [] url.route \in { "clusters", "routes" } /\ url.cluster # MeshCluster ->
              notFound("Unexpected service-cluster")
         [] url.route = "clusters" /\ url.cluster = MeshCluster ->
              ok(ClustersBody(services, instances, config, url,
                              CHOOSE o \in MapOrders(configs) : TRUE))
         [] url.route = "routes" /\ url.cluster = MeshCluster ->
              IF port.err THEN notFound("Unexpected route-config-name")
              ELSE IF port.val \notin DOMAIN configs
              THEN notFound("Missing route config for port")
              ELSE ok(configs[port.val])

\* C6: while the registry and the rule set stay as they are, every response
\* to an SDS, CDS or RDS URL is the one computed from them, byte for byte:
\* whether it is served from the cache, recomputed after clearCache, or
\* computed by a service with caching disabled; so any two responses to the
\* same URL are identical.
C6_CacheTransparent ==
    (~changed /\ resp # NoResponse) =>
        /\ resp.status = Recomputed(resp.url).status
        /\ resp.body = Recomputed(resp.url).body

\* two clusters, listed again after a clearCache with the registry unchanged
C6_Witness ==
    /\ ~changed /\ CachingEnabled /\ HandlerReturned
    /\ resp # NoResponse /\ resp.status = StatusOK /\ ~resp.cached
    /\ resp.url \in CdsURLs
    /\ Len(resp.body.clusters) = 2
    /\ Entry(resp.url).miss = 2

(***************************************************************************)
(* SDS.                                                                    *)
(***************************************************************************)
\* the step starts a request for url: it answers it, or computes the
\* response that goroutine w will store and write
Computes(w, url) == pc[w] = "idle" /\ pc'[w] = "store" /\ req'[w] = url
RequestFor(url) ==
    /\ nops' = nops + 1
    /\ \/ resp' # NoResponse /\ resp'.url = url
       \/ \E w \in Workers : Computes(w, url)

\* every SDS response is a 200 whose hosts are an array
SdsAlwaysArray ==
    (resp # NoResponse /\ resp.url.route = "registration") =>
        /\ resp.status = StatusOK
        /\ resp.body.json = "hosts"
        /\ resp.body.hosts.array

\* a computed SDS response lists the instances the registry returns for the
\* parsed service key, one (address, port) each, in the registry's order
SdsListsInstances ==
    \A w \in Workers, u \in SdsURLs : Computes(w, u) =>
        LET k == ParseServiceKey(u.key)
            eps == Instances(services, instances, k.hostname, k.ports, k.tags)
            listed == out'[w].hosts.elems
        IN /\ out'[w].hosts.array
           /\ Len(listed) = Len(eps)
           /\ \A i \in 1..Len(eps) :
                 listed[i] = [ ip_address |-> eps[i].address, port |-> eps[i].port ]

\* a computed SDS response is stored, empty or not, and served from there
SdsStored ==
    CachingEnabled =>
        \A u \in SdsURLs :
            /\ (Answers(u) /\ ~resp'.cached) =>
                  KnownIn(ds', u) /\ EntryIn(ds', u).data = resp'.body
            /\ (RequestFor(u) /\ Populated(u)) =>
                  resp' # NoResponse /\ resp'.cached /\ resp'.body = Entry(u).data

\* C8: an SDS request always answers 200 with a hosts array that holds one
\* (address, port) per instance the registry returns for the hostname,
\* port names and tags parsed from the service key, in registry order; with
\* no matching instance the array is empty, never null, and the empty
\* result is cached like any other.
C8_SdsHosts ==
    /\ []SdsAlwaysArray
    /\ [][SdsListsInstances /\ SdsStored]_vars

\* hello's v1 instance is gone: the empty array for version=v1 comes from the cache
C8_Witness ==
    /\ CachingEnabled /\ 2 \notin instances
    /\ resp # NoResponse /\ resp.cached
    /\ resp.url = SdsURL(<< "hello", "http", "version=v1" >>)
    /\ resp.body.hosts = [ array |-> TRUE, elems |-> << >> ]

(***************************************************************************)
(* CDS and RDS errors.                                                     *)
(***************************************************************************)
\* url is a CDS or RDS URL whose service-cluster is not the mesh's
WrongCluster(url) ==
    url.route \in { "clusters", "routes" } /\ url.cluster # MeshCluster

\* such a request is answered 404, Unexpected service-cluster
WrongClusterNotFound ==
    (resp # NoResponse /\ WrongCluster(resp.url)) =>
        /\ resp.status = StatusNotFound
        /\ resp.body = [ json |-> "error", msg |-> "Unexpected service-cluster" ]

\* no cache holds an entry for such a URL
WrongClusterNotCached ==
    \A u \in URLs : WrongCluster(u) => ~Known(u)

\* such a request leaves the caches as they are
WrongClusterNoEffect ==
    \A u \in URLs : (WrongCluster(u) /\ RequestFor(u)) =>
        ds' = ds /\ resp' # NoResponse

\* C9: a CDS or RDS request whose service-cluster is not the configured mesh
\* cluster name gets 404 with a message starting "Unexpected service-cluster",
\* in every cache state and after any earlier requests, and neither creates
\* nor changes a cache entry.
C9_WrongCluster ==
    /\ [](WrongClusterNotFound /\ WrongClusterNotCached)
    /\ [][WrongClusterNoEffect]_vars

\* 404 for the other cluster while the mesh cluster's entry for the node is populated
C9_Witness ==
    /\ CachingEnabled
    /\ resp # NoResponse /\ resp.status = StatusNotFound
    /\ resp.url = CdsURL("other", HostInstanceV0)
    /\ Populated(CdsURL(MeshCluster, HostInstanceV0))

\* what a request for an RDS URL of the mesh cluster does
RdsRequest(u) ==
    LET port == Atoi(u.name)
        configs == RouteConfigs(services, instances, config, u)
        notFound(msg) ==
            /\ resp' = [ url |-> u, status |-> StatusNotFound, cached |-> FALSE,
                         body |-> [ json |-> "error", msg |-> msg ] ]
            /\ ds' = ds
    IN IF CachingEnabled /\ Populated(u)
       THEN resp' # NoResponse /\ resp'.status = StatusOK /\ resp'.body = Entry(u).data
       ELSE IF port.err THEN notFound("Unexpected route-config-name")
       ELSE IF port.val \notin DOMAIN configs
       THEN notFound("Missing route config for port")
       ELSE /\ resp' = NoResponse
            /\ \E w \in Workers : Computes(w, u) /\ out'[w] = configs[port.val]

\* the goroutine that computed a response stores it and writes it with 200
StoresComputed ==
    \A w \in Workers : (pc[w] = "store" /\ pc'[w] = "idle") =>
        /\ resp' = [ url |-> req[w], status |-> StatusOK, body |-> out[w],
                     cached |-> FALSE ]
        /\ CachingEnabled => EntryIn(ds', req[w]).data = out[w]

\* the RDS cache holds route configs only, and none for a name that is
\* not a number
NoNegativeEntries ==
    \A u \in RdsURLs : Known(u) =>
        /\ ~Atoi(u.name).err
        /\ Entry(u).data # NilBytes => Entry(u).data.json = "route-config"

\* C10: an RDS request answers 404 when route-config-name is not a decimal
\* integer and when there is no outbound route config for that listener
\* port; neither answer is cached, so once the registry has a route config
\* for the port the next request for the URL returns it with 200.
C10_RdsNotFound ==
    /\ []NoNegativeEntries
    /\ [][ /\ \A u \in RdsURLs : (~WrongCluster(u) /\ RequestFor(u)) => RdsRequest(u)
           /\ StoresComputed ]_vars

\* port 81 was answered 404, world was added, and port 81 is answered 200
C10_Witness ==
    /\ CachingEnabled /\ "world" \in services
    /\ resp # NoResponse /\ resp.status = StatusOK /\ ~resp.cached
    /\ resp.url = RdsURL(<< "8", "1" >>, MeshCluster, HostInstanceV0)
    /\ resp.url \in denied
    /\ resp.body.json = "route-config"
    /\ Entry(resp.url) = [ data |-> resp.body, hit |-> 0, miss |-> 1 ]

(***************************************************************************)
(* Lock discipline of one cache.                                           *)
(***************************************************************************)
\* a lookup that reported a hit returned a whole value passed to an update
\* of the same key
HitIsStoredValue ==
    \A g \in Callers : ret[g].cached =>
        /\ ret[g].data # Torn
        /\ ret[g].data # NilBytes
        /\ << ret[g].key, ret[g].data >> \in passed

\* the write lock excludes the readers, and a value is torn only while a
\* writer holds the lock
WritersExclude ==
    /\ mu.w # "" => mu.r = {}
    /\ (\E k \in DOMAIN entries : entries[k].data = Torn) => mu.w # ""

\* C7: within one cache, under any interleaving of concurrent lookups,
\* updates, clears and stat resets, a lookup that reports a hit returns
\* one complete byte string that was passed to an earlier
\* updateCachedDiscoveryResponse call for the same key; no reader observes
\* a partially written or an empty value as a hit.
C7_HitReturnsStoredValue == HitIsStoredValue /\ WritersExclude

\* a hit returned while an update of the same key waits for the lock the
\* reader still holds
C7_Witness ==
    \E g, h \in Callers :
        /\ ret[g].cached /\ at[g] = "unlock" /\ g \in mu.r
        /\ at[h] = "lock" /\ call[h].op = "update" /\ call[h].key = ret[g].key
        /\ call[h].data # ret[g].data


(***************************************************************************)
(* The watcher: events and reloads.                                        *)
(***************************************************************************)
\* the last event made the watcher call Generate on its context once, and
\* then ScheduleConfigUpdate once, with what Generate returned
ReloadedOnce ==
    /\ Len(ev.generated) = 1
    /\ ev.generated[1] = Generate(wreg, ngen)
    /\ ev.scheduled = ev.generated
    /\ submitted # << >>
    /\ submitted[Len(submitted)].value = wreg

\* the last event caused no call of Generate or of ScheduleConfigUpdate
NoReload == ev.generated = << >> /\ ev.scheduled = << >>

Consumed(n) ==
    \/ apc = "Stopped"
    \/ Len(submitted) > n
    \/ /\ Len(submitted) = n
       /\ mailbox = None
       /\ desired.value = submitted[n].value

\* C12: watcher.Run starts the agent's loop (go w.agent.Run) before
\* ctl.Run produces events, and no update is dropped: every update that a
\* handler called from ctl.Run passes to ScheduleConfigUpdate is eventually
\* consumed by agent.Run (or replaced in the mailbox by a later update,
\* which is), also when the first event is delivered before the goroutine
\* of agent.Run has been scheduled; only an agent that is stopped may leave
\* an update unread.
C12_NoUpdateDropped ==
    \A n \in 1..MaxEvents : (Len(submitted) = n) ~> Consumed(n)

\* an update waits in the mailbox for an agent whose goroutine has not been
\* scheduled yet
C12_Witness ==
    /\ apc = "launched"
    /\ Len(submitted) = 1
    /\ mailbox = Generate(submitted[1].value, 1)
    /\ ~stop


\* C13: after stop is signalled, watcher.Run returns only after both its
\* agent's Run and its controller's Run have returned.
C13_RunReturnsAfterBoth ==
    wpc = "returned" => stop /\ cpc = "returned" /\ apc = "Stopped"


(***************************************************************************)
(* The epoch files.                                                        *)
(***************************************************************************)
\* {configDir}/envoy-rev{N}.json
EpochFile(n) == << "/etc/envoy", "/envoy-rev" >> \o Itoa(n) \o << ".json" >>

\* what is left of the files fs once the file of epoch n has been removed
WithoutEpoch(fs, n) == [ x \in DOMAIN fs \ { EpochFile(n) } |-> fs[x] ]

\* a step that starts a child starts it for the current epoch, on a file
\* that holds the desired config already
StartsOnWrittenFile ==
    \A child \in children' \ children :
        /\ child.epoch = epoch
        /\ child.args.c = EpochFile(epoch)
        /\ child.args.restartEpoch = Itoa(epoch)
        /\ EpochFile(epoch) \in DOMAIN files
        /\ files[EpochFile(epoch)] = desired.value
        /\ files' = files

\* a step in which a cleanup hook runs (a child exits, or a spawn fails)
\* removes the file of that epoch if it is there and leaves the others; if
\* it is not there the failure is noted and the step goes on as otherwise
CleanupRemovesOwnFile ==
    /\ \A child \in children \ children' :
           /\ files' = WithoutEpoch(files, child.epoch)
           /\ removed' = IF EpochFile(child.epoch) \in DOMAIN files
                         THEN "removed" ELSE "failed"
    /\ attempts' = attempts + 1 =>
           /\ files' = WithoutEpoch(files, epoch)
           /\ removed' = IF EpochFile(epoch) \in DOMAIN files
                         THEN "removed" ELSE "failed"
           /\ apc' \in { "Backoff", "Idle" }
    /\ (children \subseteq children' /\ attempts' # attempts + 1) =>
           /\ DOMAIN files \subseteq DOMAIN files'
           /\ removed' = removed

\* distinct epochs have distinct files, and a child that runs still has the
\* file it was started on
EpochFilesDistinct ==
    /\ \A m, n \in 0..(epoch + 11) :
           m # n => configFile(ConfigPath, m) # configFile(ConfigPath, n)
    /\ \A child \in children : child.args.c \in DOMAIN files
    /\ \A a, b \in children : a.epoch # b.epoch => a.args.c # b.args.c

\* C14: for every epoch N the epoch file {configDir}/envoy-rev{N}.json is
\* written before the child of epoch N is started; the child is started
\* with -c pointing at that file and --restart-epoch N; the cleanup for
\* epoch N removes exactly that file and no file of another epoch (distinct
\* epochs map to distinct files); a removal that fails is logged and
\* swallowed.
C14_EpochFiles ==
    /\ []EpochFilesDistinct
    /\ [][StartsOnWrittenFile /\ CleanupRemovesOwnFile]_vars

\* the children of epochs 0 and 1 run side by side, each on its own file,
\* after a cleanup that found no file to remove
C14_Witness ==
    /\ { child.epoch : child \in children } = { 0, 1 }
    /\ DOMAIN files = { EpochFile(0), EpochFile(1) }
    /\ files[EpochFile(0)] # files[EpochFile(1)]
    /\ removed = "failed"


(***************************************************************************)
(* The agent.                                                              *)
(***************************************************************************)
\* the last update passed to ScheduleConfigUpdate
LastSubmitted == submitted[Len(submitted)]

\* the agent has nothing left to do: nothing in the mailbox, no spawn and
\* no retry under way
AgentSettled == apc = "Idle" /\ mailbox = None /\ DeepEqual(desired, accepted)

\* accepted is the last update submitted, if there was one
AcceptedIsLast ==
    submitted # << >> => AgentSettled /\ accepted.value = LastSubmitted.value

\* C15: for any finite sequence of ScheduleConfigUpdate calls after which no
\* further call arrives, when spawns succeed (and the agent is not
\* stopped), the agent eventually reaches a state where accepted equals
\* the last submitted config, and stays there.
C15_AcceptsLastDesired == env = "ok" => <>[](stop \/ AcceptedIsLast)

\* three updates were submitted, two children were started, and accepted is
\* the third update
C15_Witness ==
    /\ env = "ok" /\ ~stop
    /\ Len(submitted) = 3
    /\ Len(launched) = 2
    /\ AgentSettled
    /\ accepted.value = submitted[3].value
    /\ accepted.value # submitted[2].value

\* A, B and C were submitted in that order, B and C while the agent was
\* inside the spawn for A
Coalesced ==
    /\ Len(submitted) = 3
    /\ submitted[1].value # submitted[2].value
    /\ submitted[2].value # submitted[3].value
    /\ submitted[1].value # submitted[3].value
    /\ submitted[1].during = "none"
    /\ submitted[2].during = submitted[1].value
    /\ submitted[3].during = submitted[1].value

\* the launches of the coalesced run: A at epoch 0, then C at epoch 1
CoalescedLaunches ==
    << [ epoch |-> 0, value |-> submitted[1].value ],
       [ epoch |-> 1, value |-> submitted[3].value ] >>

\* C16: when configs A, B and C are submitted in that order and B and C
\* arrive while the agent is reconciling A (spawns succeed), the agent
\* launches exactly two epochs, epoch 0 with A and epoch 1 with C; B is
\* never launched, and no epoch number is skipped or reused.
C16_Coalescing ==
    /\ \A i \in 1..Len(launched) : launched[i].epoch = i - 1
    /\ epoch = Len(launched)
    /\ (env = "ok" /\ Coalesced) =>
           /\ \E k \in 0..2 : launched = SubSeq(CoalescedLaunches, 1, k)
           /\ \A i \in 1..Len(launched) : launched[i].value # submitted[2].value
           /\ AgentSettled => launched = CoalescedLaunches
                              /\ accepted.value = submitted[3].value

\* the coalesced run has ended: two children started, A and then C
C16_Witness ==
    /\ env = "ok"
    /\ Coalesced
    /\ AgentSettled
    /\ launched = CoalescedLaunches


\* the agent has given its desired config up: the retry budget is spent
GivenUp == apc = "Idle" /\ attempts > 10

\* how many retries there were, and how long the agent waits before one
RetriesBounded ==
    /\ retries <= 10
    /\ attempts <= 11
    /\ retries <= attempts
    /\ apc = "Backoff" => attempts \in 1..10 /\ retries = attempts - 1
    /\ apc \in { "write", "exec" } => retries = attempts
    /\ GivenUp => retries = 10 /\ ~ENABLED AgentReconcile /\ ~ENABLED AgentRetry
    /\ (apc = "Idle" /\ attempts = 0 /\ ~DeepEqual(desired, accepted)) =>
           ENABLED AgentReconcile

\* the delay before the first retry is the base delay, and no delay is
\* shorter than the one before it
DelaysGrow ==
    (apc' = "Backoff" /\ apc # "Backoff") =>
        /\ delay' >= delay
        /\ delay' >= 100
        /\ attempts' = 1 => delay' = 100

\* after the budget is spent an update equal to the desired config
\* launches nothing; an update that differs resets the counter
ResubmissionAfterGivingUp ==
    /\ (GivenUp /\ DeepEqual(desired', desired)) =>
           /\ apc' \in { "Idle", "Stopped" }
           /\ attempts' = attempts
           /\ launched' = launched
           /\ children' \subseteq children
           /\ DOMAIN files' \subseteq DOMAIN files
    /\ ~DeepEqual(desired', desired) =>
           /\ mailbox # None /\ desired' = mailbox
           /\ attempts' = 0 /\ retries' = 0 /\ delay' = 0
           /\ apc' = "Idle"

\* a child that starts resets the counter
SuccessResets == launched' # launched => attempts' = 0 /\ retries' = 0 /\ delay' = 0

\* C17: when every spawn of the current desired config fails, the agent
\* retries at most the budget number of times (10 as constructed by
\* NewWatcher, base delay 100 ms), with non-decreasing delays, then stops
\* retrying; resubmitting an equal config launches nothing, and submitting
\* a different config resets the retry counter and launches again; a
\* successful spawn also resets the counter.
C17_RetryBudget ==
    /\ []RetriesBounded
    /\ [][DelaysGrow /\ ResubmissionAfterGivingUp /\ SuccessResets]_vars

\* every spawn fails: the agent gave its first config up after 10 retries,
\* was given a different one, and is inside its 10th retry for that one
C17_Witness ==
    /\ env = "fail"
    /\ Len(submitted) = 2
    /\ submitted[2].during = "poisoned"
    /\ desired.value = submitted[2].value
    /\ retries = 10
    /\ apc = "exec"
    /\ launched = << >>


\* the epoch is the number of children started so far
EpochCountsLaunches ==
    /\ epoch = Len(launched)
    /\ launched = << >> => accepted = None
    /\ \A child \in children : child.epoch < epoch
    /\ \A a, b \in children : a.epoch = b.epoch => a = b

\* a spawn begins when none is in progress, and ends before the next one
\* begins; a step starts at most one child, and only from inside a spawn
OneSpawnAtATime ==
    /\ (apc' = "write" /\ apc # "write") => apc \in { "Idle", "Backoff" }
    /\ apc' = "exec" /\ apc # "exec" => apc = "write"
    /\ children' \ children # {} =>
           /\ apc = "exec" /\ apc' = "Idle"
           /\ Cardinality(children' \ children) = 1

\* the epoch goes up by one when a reconcile succeeds (a child starts and
\* accepted becomes desired), and stays as it is otherwise
EpochSteps ==
    /\ epoch' \in { epoch, epoch + 1 }
    /\ epoch' = epoch + 1 <=> children' \ children # {}
    /\ epoch' = epoch + 1 => accepted' = desired /\ ~DeepEqual(accepted, desired)
    /\ epoch' = epoch => accepted' = accepted

\* no step of the agent ends a child: a child goes when it exits
NeverKills ==
    children \ children' # {} => UNCHANGED << apc, desired, accepted, epoch, attempts >>

EqualUpdateIsNoOp ==
    ( /\ mailbox # None /\ mailbox' = None
      /\ mailbox.value = accepted.value
      /\ desired.value = accepted.value ) =>
        /\ UNCHANGED << epoch, files, children, attempts, retries, launched, apc >>
        /\ accepted' = accepted
        /\ desired'.value = accepted.value

\* an agent that has accepted what it wants starts no spawn; and however
\* many reloads there were, if they all generated the same value then at
\* most one child was started and at most the file of epoch 0 written
RepeatedReloadsLaunchOnce ==
    /\ (apc = "Idle" /\ desired.value = accepted.value) => ~ENABLED AgentReconcile
    /\ (\A i \in 1..Len(submitted) : submitted[i].value = submitted[1].value) =>
           /\ Len(launched) <= 1
           /\ epoch <= 1
           /\ DOMAIN files \subseteq { EpochFile(0) }

RECURSIVE WeightTotal(_, _)
WeightTotal(routes, n) ==
    IF n = 0 THEN 0 ELSE WeightTotal(routes, n - 1) + routes[n].Weight

\* a validator of route rules has returned
RouteRuleValidated ==
    vfn \in { "ValidateRouteRule", "ValidateIngressRule" } /\ ~vpanic

\* the rule has more than one route destination, and the weights do not
\* sum to exactly 100
WeightsOffTotal ==
    /\ vmsg.type = "RouteRule"
    /\ Len(vmsg.Route.elems) > 1
    /\ WeightTotal(vmsg.Route.elems, Len(vmsg.Route.elems)) # 100

\* the error returned includes the weight-sum violation, with the sum
WeightSumReported ==
    \E i \in 1..Len(verrs) :
        /\ verrs[i].text = "Route weights total %v (must total 100)"
        /\ verrs[i].arg = WeightTotal(vmsg.Route.elems, Len(vmsg.Route.elems))

\* C20: for every RouteRule with more than one route destination whose
\* integer weights do not sum to exactly 100, ValidateRouteRule (and
\* ValidateIngressRule) returns an error that includes a weight-sum
\* violation; the sum is the plain integer sum of all weights, including
\* out-of-range ones.
C20_WeightSumReported == (RouteRuleValidated /\ WeightsOffTotal) => WeightSumReported

\* the revision that has validateWeights reports the sum
SecondRevisionReportsWeightSum == vrev = "part_001" => C20_WeightSumReported


\* some error returned is a weight-sum violation
SomeWeightSumError ==
    \E i \in 1..Len(verrs) :
        verrs[i].text = "Route weights total %v (must total 100)"

\* the rule validated has a route list (nil or not) of n destinations
RouteListOf(n) ==
    /\ RouteRuleValidated
    /\ vmsg.type = "RouteRule"
    /\ ~vmsg.Route.isNil
    /\ Len(vmsg.Route.elems) = n

\* the revision validated with sums the weights of a route list
SumsWeights == vrev = "part_001"

Called == vfn # "none"

\* C26: every validator is total: for every input, including a typed nil
\* message pointer, a nil element inside a route list and a nil sub-message
\* passed directly to an exported validator, the call returns an error
\* value or nil and never panics.
C26_ValidatorsTotal == Called => ~vpanic

\* the calls that return whatever they are given: no validator panics on a
\* message that holds no nil pointer where the code reads a field, and the
\* validators of faults return nil for a nil fault
PanicsOnlyOnNil ==
    /\ (Called /\ vmsg.type \in ProtoMessages /\ vpanic)
          => \/ vmsg.isNil
             \/ \E i \in 1..Len(vmsg.Route.elems) : vmsg.Route.elems[i].isNil
    /\ (Called /\ vmsg.type = "DestinationWeight" /\ vpanic) => vmsg.dw.isNil
    /\ (Called /\ vmsg.type \in { "HTTPFaultInjection", "L4FaultInjection" })
          => ~vpanic
    /\ (Called /\ vmsg.type \in { "HTTPFaultInjection", "L4FaultInjection" }
               /\ vmsg.fault.isNil) => verrs = << >>

(***************************************************************************)
(* HTTP faults and L4 faults.                                              *)
(***************************************************************************)
\* a validator has gone through the HTTP fault, given directly or as the
\* fault of a rule
HTTPFaultValidated ==
    \/ vfn = "ValidateHTTPFault"
    \/ RouteRuleValidated /\ vmsg.type = "RouteRule" /\ ~vmsg.HttpFault.isNil
TheHTTPFault ==
    IF vmsg.type = "HTTPFaultInjection" THEN vmsg.fault ELSE vmsg.HttpFault

\* it returned an error
Rejected == verrs # << >>

\* the oneof of the delay holds an exponential delay
ExponentialDelay ==
    /\ ~TheHTTPFault.isNil /\ ~TheHTTPFault.Delay.isNil
    /\ TheHTTPFault.Delay.HttpDelayType = "ExponentialDelaySeconds"

\* the abort of the fault is one of error type t
AbortOf(t) ==
    /\ ~TheHTTPFault.isNil /\ ~TheHTTPFault.Abort.isNil
    /\ TheHTTPFault.Abort.ErrorType = t

\* C28: every HTTP fault that specifies an exponential delay yields an
\* error even when all its values are otherwise valid, and every HTTP fault
\* whose abort is a gRPC status yields an error; an HTTP-status abort (in a
\* fault without delay) is accepted exactly when the status is in 0..600 and
\* the percent in 0..100.
C28_UnsupportedFaultsRejected ==
    HTTPFaultValidated =>
        /\ ExponentialDelay => Rejected
        /\ AbortOf("GrpcStatus") => Rejected
        /\ (AbortOf("HttpStatus") /\ TheHTTPFault.Delay.isNil) =>
              (~Rejected <=> /\ TheHTTPFault.Abort.HttpStatus \in 0..600
                             /\ TheHTTPFault.Abort.Percent \in 0..100)

\* what both revisions do: an exponential delay of other than 0 seconds is
\* an error, an HTTP-status abort is accepted exactly in range; and the
\* second revision reports every gRPC abort
FaultsRejectedAsBuilt ==
    HTTPFaultValidated =>
        /\ (ExponentialDelay /\ TheHTTPFault.Delay.Seconds # 0) => Rejected
        /\ (AbortOf("GrpcStatus") /\ vrev = "part_001") => Rejected
        /\ (AbortOf("HttpStatus") /\ TheHTTPFault.Delay.isNil) =>
              (~Rejected <=> /\ TheHTTPFault.Abort.HttpStatus \in 0..600
                             /\ TheHTTPFault.Abort.Percent \in 0..100)

\* the L4 fault that a validator has gone through, given directly or as the
\* fault of a rule
TheL4Fault ==
    IF vmsg.type = "L4FaultInjection" THEN vmsg.fault ELSE vmsg.L4Fault

\* some error returned has this text
Reports(text) == \E i \in 1..Len(verrs) : verrs[i].text = text

\* the fault has a throttle section and no terminate section
ThrottleOnly ==
    /\ ~TheL4Fault.isNil
    /\ TheL4Fault.Terminate.isNil /\ ~TheL4Fault.Throttle.isNil

\* the throttle's percent is in 0..100 and its limits and the seconds or
\* bytes it starts after are not negative
ThrottleInRange ==
    /\ TheL4Fault.Throttle.Percent \in 0..100
    /\ TheL4Fault.Throttle.DownstreamLimitBps >= 0
    /\ TheL4Fault.Throttle.UpstreamLimitBps >= 0
    /\ TheL4Fault.Throttle.After >= 0

LabelBounds(s) == { 0, Len(s) + 1 } \cup { k \in 1..Len(s) : s[k] = "." }

\* the characters of s strictly between positions a and b match
\* ^[a-z0-9]([-a-z0-9]*[a-z0-9])?$ and are at most 63
LabelBetween(s, a, b) ==
    /\ b - a - 1 \in 1..63
    /\ s[a + 1] \in LowerAlnum
    /\ s[b - 1] \in LowerAlnum
    /\ \A k \in (a + 1)..(b - 1) : s[k] \in LowerAlnum \cup { "-" }

\* the length of s is between 1 and 255 and every dot-separated label is a
\* DNS-1123 label
AcceptableFQDN(s) ==
    /\ Len(s) \in 1..255
    /\ \A a \in LabelBounds(s) : \A b \in LabelBounds(s) :
          (a < b /\ ~\E c \in LabelBounds(s) : a < c /\ c < b)
              => LabelBetween(s, a, b)

\* C23: validateFQDN accepts a string exactly when its length is between 1
\* and 255 and every dot-separated label matches
\* ^[a-z0-9]([-a-z0-9]*[a-z0-9])?$ with length at most 63; in particular
\* empty labels (leading, trailing or doubled dots), uppercase letters and
\* labels starting or ending with '-' are rejected.
C23_FQDNAcceptedExactly ==
    vfn = "validateFQDN" =>
        /\ ~Rejected <=> AcceptableFQDN(vmsg.s)
        /\ (vmsg.s # << >> /\ (Head(vmsg.s) = "." \/ vmsg.s[Len(vmsg.s)] = "."))
              => Rejected
        /\ (\E k \in 1..(Len(vmsg.s) - 1) : vmsg.s[k] = "." /\ vmsg.s[k + 1] = ".")
              => Rejected
        /\ (\E k \in 1..Len(vmsg.s) : vmsg.s[k] = "B") => Rejected
        /\ (\E k \in 1..Len(vmsg.s) :
                /\ vmsg.s[k] = "-"
                /\ \/ k = 1 \/ k = Len(vmsg.s)
                   \/ vmsg.s[k - 1] = "." \/ vmsg.s[k + 1] = ".") => Rejected

\* validateFQDN has accepted a name of 255 characters in four labels of 63
C23_Witness ==
    /\ vfn = "validateFQDN"
    /\ Len(vmsg.s) = 255
    /\ vmsg.s[64] = "." /\ vmsg.s[128] = "." /\ vmsg.s[192] = "."
    /\ verrs = << >>

\* the ways to write the integer n that strconv.Atoi reads as n: an
\* optional sign, zeros, the decimal digits
Numerals(n) ==
    LET digits == Itoa(IF n < 0 THEN 0 - n ELSE n)
        padded == { Rep("0", z) \o digits : z \in 0..2 }
    IN IF n < 0 THEN { << "-" >> \o d : d \in padded }
       ELSE padded \cup { << "+" >> \o d : d \in padded }
                   \cup (IF n = 0 THEN { << "-" >> \o d : d \in padded } ELSE { })

\* the string token writes an integer between lo and hi
IntegerIn(token, lo, hi) == \E n \in lo..hi : token \in Numerals(n)

\* the subnet validated is one that has to be rejected: more than one '/',
\* a suffix that is no integer in 1..32, an address of other than four
\* octets, or an octet that is no integer in 0..255
BadSubnet ==
    \/ Len(vmsg.bits) > 1
    \/ \E i \in 1..Len(vmsg.bits) : ~IntegerIn(vmsg.bits[i], 1, 32)
    \/ Len(vmsg.addr) # 4
    \/ \E i \in 1..Len(vmsg.addr) : ~IntegerIn(vmsg.addr[i], 0, 255)

\* C24: validateIPv4Subnet rejects every subnet string whose /bits suffix is
\* not an integer in 1..32, whose address does not have exactly four
\* dot-separated octets, whose any octet is not an integer in 0..255, or
\* that contains more than one '/'; a string without a suffix is accepted
\* when the address alone is valid.
C24_SubnetsRejected ==
    vfn = "validateSubnet" =>
        /\ BadSubnet => Rejected
        /\ (vmsg.bits = << >> /\ ~BadSubnet) => ~Rejected

\* validateIPv4Subnet has rejected 0.255.0.255/33 for its suffix alone
C24_Witness ==
    /\ vfn = "validateSubnet"
    /\ vmsg.addr = << << "0" >>, << "2", "5", "5" >>, << "0" >>, << "2", "5", "5" >> >>
    /\ vmsg.bits = << << "3", "3" >> >>
    /\ Len(verrs) = 1
    /\ verrs[1].text = "/%v is not a valid CIDR block"


(***************************************************************************)
(* Services and service instances.                                         *)
(***************************************************************************)
\* name is a DNS-1123 label
LabelName(name) == LabelBetween(name, 0, Len(name) + 1)

\* what Service.Validate checks of a service: a hostname that is not empty
\* and whose dot-separated parts are DNS-1123 labels; at least one port;
\* port names that are DNS-1123 labels, or empty if the port is the only
\* one; port numbers that are not negative
ServiceWellFormed(svc) ==
    /\ svc.Hostname # << >>
    /\ \A a \in LabelBounds(svc.Hostname) : \A b \in LabelBounds(svc.Hostname) :
          (a < b /\ ~\E c \in LabelBounds(svc.Hostname) : a < c /\ c < b)
              => LabelBetween(svc.Hostname, a, b)
    /\ Len(svc.Ports) >= 1
    /\ \A i \in 1..Len(svc.Ports) :
          /\ svc.Ports[i].Port >= 0
          /\ IF svc.Ports[i].Name = << >> THEN Len(svc.Ports) = 1
             ELSE LabelName(svc.Ports[i].Name)

\* two ports of the service have the same name
DuplicatePortNames(svc) ==
    \E i \in 1..Len(svc.Ports) : \E j \in 1..Len(svc.Ports) :
        i # j /\ svc.Ports[i].Name = svc.Ports[j].Name

\* a port of the service has no name, and the service has other ports
EmptyNameAmongMany(svc) ==
    Len(svc.Ports) > 1 /\ \E i \in 1..Len(svc.Ports) : svc.Ports[i].Name = << >>

\* a valid service: well-formed, with unique port names
ValidService(svc) == ServiceWellFormed(svc) /\ ~DuplicatePortNames(svc)

\* the service has no other issue than duplicate port names and empty port
\* names among several ports
OnlyNameIssues(svc) ==
    ServiceWellFormed([ svc EXCEPT !.Ports =
        << [ isNil |-> FALSE, Name |-> << "p" >>, Port |-> 80, Protocol |-> "HTTP" ] >> ])
    /\ Len(svc.Ports) >= 1
    /\ \A i \in 1..Len(svc.Ports) :
          /\ svc.Ports[i].Port >= 0
          /\ svc.Ports[i].Name # << >> => LabelName(svc.Ports[i].Name)

EmptyNameText == "Empty port names are not allowed for services with multiple ports"

\* C22: Service.Validate returns no error for every valid Service, and for
\* every Service with duplicate port names or with an empty port name among
\* multiple ports it reports exactly those issues: an error if two ports
\* have the same name, the empty-name violation if a port among several has
\* no name, and nothing else.
C22_ServiceIssuesReported ==
    vfn = "Service.Validate" =>
        /\ ValidService(vmsg) => ~Rejected
        /\ DuplicatePortNames(vmsg) => Rejected
        /\ EmptyNameAmongMany(vmsg) => Reports(EmptyNameText)
        /\ (OnlyNameIssues(vmsg) /\ ~DuplicatePortNames(vmsg))
              => \A i \in 1..Len(verrs) : verrs[i].text = EmptyNameText

\* what Service.Validate does: it accepts exactly the well-formed services,
\* whether or not two ports have the same name, and reports every port
\* among several that has no name
ServiceValidatedAsBuilt ==
    vfn = "Service.Validate" =>
        /\ ~Rejected <=> ServiceWellFormed(vmsg)
        /\ EmptyNameAmongMany(vmsg) => Reports(EmptyNameText)
        /\ OnlyNameIssues(vmsg)
              => \A i \in 1..Len(verrs) : verrs[i].text = EmptyNameText

TheKey == vmsg.key
TheObject == vmsg.obj

\* the kind's validator has nothing to report on the payload: a rule or a
\* policy with a destination that is a valid domain name
PayloadValid ==
    /\ ~TheObject.v.isNil
    /\ AcceptableFQDN(TheObject.v.Destination)

\* key and object are non-nil; kind, name and namespace are DNS-1123
\* labels; the kind is declared; the object is a proto message whose
\* message name is the declared one; the kind's validator returns nil
ConfigAcceptable ==
    /\ ~TheKey.isNil /\ TheObject.is # "nil"
    /\ LabelName(TheKey.Kind) /\ LabelName(TheKey.Name) /\ LabelName(TheKey.Namespace)
    /\ TheKey.Kind \in { RouteRuleKind, DestinationPolicyKind }
    /\ TheObject.is = "proto.Message"
    /\ TheObject.v.type =
          (IF TheKey.Kind = RouteRuleKind THEN "RouteRule" ELSE "DestinationPolicy")
    /\ PayloadValid

\* C27: KindMap.ValidateConfig returns nil only if key and object are
\* non-nil, kind, name and namespace are each DNS-1123 labels, the kind is
\* declared in the KindMap, the object is a proto message whose message
\* name equals the declared message name, and the kind's validator returns
\* nil; in every other case it returns an error.
C27_ConfigAcceptedOnlyIf ==
    vfn = "ValidateConfig" =>
        /\ (~vpanic /\ ~Rejected) => ConfigAcceptable
        /\ ~ConfigAcceptable => (~vpanic /\ Rejected)

\* what ValidateConfig does: when it returns, it returns nil exactly for
\* the acceptable configurations; it does not return for a nil pointer of
\* the declared message type, on which the kind's validator panics
ConfigAcceptedAsBuilt ==
    vfn = "ValidateConfig" =>
        /\ ~vpanic => (~Rejected <=> ConfigAcceptable)
        /\ vpanic <=> /\ ~TheKey.isNil /\ TheObject.is = "proto.Message"
                      /\ TheObject.v.isNil
                      /\ KeyValidate(TheKey) = << >>
                      /\ TheKey.Kind \in DOMAIN IstioConfig
                      /\ TheObject.v.type = IstioConfig[TheKey.Kind].MessageName


(***************************************************************************)
(* Accumulation of errors.                                                 *)
(***************************************************************************)
\* the bound of s that follows the bound a
NextBound(s, a) ==
    CHOOSE b \in LabelBounds(s) :
        a < b /\ \A c \in LabelBounds(s) : a < c => b <= c

\* the labels of s that are no DNS-1123 labels, by the bound before them
InvalidLabels(s) ==
    { a \in LabelBounds(s) \ { Len(s) + 1 } : ~LabelBetween(s, a, NextBound(s, a)) }

\* the octets of the address validated that are no integers in 0..255
InvalidOctets ==
    { i \in 1..Len(vmsg.addr) : ~IntegerIn(vmsg.addr[i], 0, 255) }

\* the kind of the key validated is a label that is not declared
UndeclaredKind ==
    LabelName(TheKey.Kind) /\ TheKey.Kind \notin { RouteRuleKind, DestinationPolicyKind }

\* C25: validators accumulate and never short-circuit: for an input with k
\* independent violations the returned error lists all k: every invalid
\* label of a domain name, every invalid octet of an address, and the key
\* errors of a configuration together with its undeclared kind, not only
\* the first one found.
C25_AllViolationsListed ==
    /\ (vfn = "validateFQDN" /\ Len(vmsg.s) \in 1..255)
          => Len(verrs) = Cardinality(InvalidLabels(vmsg.s))
    /\ (vfn = "validateSubnet" /\ vmsg.bits = << >> /\ Len(vmsg.addr) = 4)
          => Len(verrs) = Cardinality(InvalidOctets)
    /\ (vfn = "ValidateConfig" /\ ~TheKey.isNil /\ TheObject.is # "nil"
            /\ UndeclaredKind /\ ~LabelName(TheKey.Name))
          => Reports("Invalid name: %q") /\ Reports("Undeclared kind: %q")

\* what the code does: validateFQDN and validateIPv4Address return at the
\* first violation found, and ValidateConfig returns the errors of the key
\* alone when it has any; Key.Validate, Service.Validate and the validators
\* of messages do list every violation they find
FirstViolationOnly ==
    /\ vfn = "validateFQDN" => Len(verrs) <= 1
    /\ (vfn = "validateSubnet" /\ vmsg.bits = << >>) => Len(verrs) <= 1
    /\ (vfn = "ValidateConfig" /\ ~vpanic /\ ~TheKey.isNil /\ TheObject.is # "nil"
            /\ KeyValidate(TheKey) # << >>)
          => verrs = KeyValidate(TheKey)
    /\ (vfn = "ValidateConfig" /\ ~TheKey.isNil /\ TheObject.is # "nil")
          => ((~LabelName(TheKey.Name) /\ ~LabelName(TheKey.Namespace))
                => (Reports("Invalid name: %q") /\ Reports("Invalid namespace: %q")))

(***************************************************************************)
(* Staleness.                                                              *)
(***************************************************************************)
\* every change of the registry or the rule store has been notified and
\* its handler has returned
AllChangesHandled == pending = 0 /\ hpc = 0

\* C31: no stale entry survives an invalidation: under any interleaving of
\* request handlers with change handlers, once the handlers of all changes
\* have returned, a response served from the cache is the one computed from
\* the registry and the rules as they are, and no entry holds anything
\* else; a request that missed before a clear and stores after it leaves no
\* data from before the change in the cache.
C31_NoStaleEntry ==
    (CachingEnabled /\ AllChangesHandled) =>
        /\ (resp # NoResponse /\ resp.status = StatusOK /\ resp.cached)
              => resp.body = Recomputed(resp.url).body
        /\ \A u \in URLs : (Populated(u) /\ \A w \in Workers : pc[w] = "idle")
              => Entry(u).data = Recomputed(u).body

\* what the code guarantees: data from before a change is cached after its
\* handler has returned only if a request that missed before the handler's
\* clear stored after it, so never when operations do not overlap
StaleOnlyByLateStore ==
    (sched = "seq" /\ CachingEnabled /\ AllChangesHandled) =>
        \A u \in URLs : Populated(u) => Entry(u).data = Recomputed(u).body

\* a cached response that is not what the registry yields, served after
\* the handler of the only change has returned
StaleResponseServed ==
    /\ CachingEnabled /\ AllChangesHandled /\ changed
    /\ resp # NoResponse /\ resp.status = StatusOK /\ resp.cached
    /\ resp.body # Recomputed(resp.url).body

(***************************************************************************)
(* Counters under concurrent requests.                                     *)
(***************************************************************************)
\* the counters of url in the discovery service d: zero for an unknown key
CountersIn(d, url) ==
    IF KnownIn(d, url)
    THEN [ hit |-> EntryIn(d, url).hit, miss |-> EntryIn(d, url).miss ]
    ELSE [ hit |-> 0, miss |-> 0 ]

\* the step leaves the keys and counters of every URL but url as they were
OthersUntouched(url) ==
    /\ \A f \in AllCaches :
          DOMAIN ds'[f].cache \ { CacheKey(url) } = DOMAIN ds[f].cache \ { CacheKey(url) }
    /\ \A v \in URLs \ { url } : CountersIn(ds', v) = CountersIn(ds, v)

\* a 200 adds one to the hit or to the miss counter of its key, and to
\* nothing else
OneCountPerAnswer ==
    \A u \in URLs : Answers(u) =>
        /\ KnownIn(ds', u)
        /\ \/ CountersIn(ds', u) = [ CountersIn(ds, u) EXCEPT !.hit = @ + 1 ]
           \/ CountersIn(ds', u) = [ CountersIn(ds, u) EXCEPT !.miss = @ + 1 ]
        /\ OthersUntouched(u)

\* the step of a request that writes no 200: the request is answered with
\* an error, or it has missed and recomputes
WritesNoAnswer ==
    /\ nops' = nops + 1
    /\ \/ resp' # NoResponse /\ resp'.status # StatusOK
       \/ \E w \in Workers : pc[w] = "idle" /\ pc'[w] = "store"

Reported == DOMAIN GetCacheStats

\* the keys of cache f in the discovery service d
KeysIn(d, f) == DOMAIN d[f].cache

\* no operation removes a key from a cache
KeysOnlyGrow == \A f \in AllCaches : KeysIn(ds, f) \subseteq KeysIn(ds', f)

\* a key appears only when a recomputed 200 is stored, and it is the URL of
\* that request, query string included; every such store is reported
ReportedWhenStored ==
    /\ Reported' # Reported =>
          \E u \in URLs : /\ Answers(u) /\ ~resp'.cached
                          /\ Reported' = Reported \cup { u }
    /\ \A u \in URLs : (CachingEnabled /\ Answers(u) /\ ~resp'.cached) => u \in Reported'

\* no key is in two caches, so the merged map holds every entry of every cache
MergeLosesNothing ==
    /\ \A f, g \in AllCaches : f # g => KeysIn(ds, f) \cap KeysIn(ds, g) = {}
    /\ Reported = UNION { KeysIn(ds, f) : f \in AllCaches }
    /\ \A f \in AllCaches : \A k \in KeysIn(ds, f) : GetCacheStats[k] = stats(ds[f])[k]

\* C33: GET /cache_stats is empty on a fresh service and afterwards reports
\* exactly the URLs for which a recomputed 200 response has been stored:
\* the key set of each cache only grows, the key sets of the three caches
\* are pairwise disjoint so that merging them loses no entry, and the key
\* is the full request URL, so that URLs which differ in their query string
\* only have separate entries.
C33_CacheStatsKeys ==
    /\ nops = 0 => Reported = {}
    /\ [](MergeLosesNothing /\ Reported \subseteq URLs)
    /\ [][KeysOnlyGrow /\ ReportedWhenStored]_vars

\* a URL and the same URL with a query string are reported apart, with
\* counters of their own
C33_Witness ==
    LET u == SdsURL(<< "hello", "http" >>)
        q == WithQuery(u, "x=1")
    IN /\ { u, q } \subseteq Reported
       /\ GetCacheStats[u] = [ hit |-> 1, miss |-> 1 ]
       /\ GetCacheStats[q] = [ hit |-> 0, miss |-> 1 ]

(***************************************************************************)
(* Concurrent misses of one key.                                           *)
(***************************************************************************)
\* goroutine w has missed on url and holds the response it computed
Computing(w, url) == pc[w] = "store" /\ req[w] = url

\* a request for a key that holds no data recomputes, also while another
\* request for the same key is between its miss and its store
MissesWhileOtherComputes ==
    \A u \in SdsURLs : (RequestFor(u) /\ ~Populated(u)) =>
        \E w \in Workers : /\ Computes(w, u)
                           /\ out'[w] = Recomputed(u).body

\* a store writes the data its own request computed over whatever the
\* entry holds, counts one miss and answers with that data
StoresOwnResult ==
    \A w \in Workers, u \in URLs :
        (CachingEnabled /\ Computing(w, u) /\ pc'[w] = "idle") =>
            /\ EntryIn(ds', u).data = out[w]
            /\ CountersIn(ds', u) = [ CountersIn(ds, u) EXCEPT !.miss = @ + 1 ]
            /\ resp' = writeResponse(u, out[w], FALSE)

\* a request that has missed can store at once, whatever the other does
NeverWaits ==
    \A w \in Workers : (sched = "conc" /\ pc[w] = "store") => ENABLED StoreResponse(w)

\* C34: when two requests for the same uncached URL run concurrently, both
\* can miss, both recompute and both store: neither waits for the result
\* of the other, each store adds one to the miss counter of the key, which
\* so grows by 2 between two clears, and the entry holds the data of the
\* store that ran last.
C34_BothMissBothStore ==
    /\ []NeverWaits
    /\ [][MissesWhileOtherComputes /\ StoresOwnResult]_vars

\* two requests for one URL missed, one before and one after an instance
\* was deleted, and both stored with no clear in between: two misses, no
\* hit, and the entry holds what was computed before the change
C34_Witness ==
    /\ sched = "conc" /\ CachingEnabled /\ clearedIn = {} /\ changed
    /\ \A w \in Workers : pc[w] = "idle"
    /\ \E u \in SdsURLs :
          /\ CountersIn(ds, u) = [ hit |-> 0, miss |-> 2 ]
          /\ Entry(u).data # Recomputed(u).body
          /\ resp = writeResponse(u, Entry(u).data, FALSE)

(***************************************************************************)
(* Statistics read while they are reset.                                   *)
(***************************************************************************)
\* caller g has returned from stats
StatsReturned(g) == at[g] = "idle" /\ report[g].before # << >>

ZeroCounters == [ hit |-> 0, miss |-> 0 ]

\* C35: a GET /cache_stats that runs concurrently with a POST
\* /cache_stats_delete reports for every key either the counters it had
\* before the reset or the counters after it, never a torn pair such as
\* hit=0 with the old non-zero miss.
C35_NoTornCounters ==
    \A g \in Callers : StatsReturned(g) =>
        \A k \in DOMAIN report[g].stats :
            report[g].stats[k] \in { report[g].before[k], ZeroCounters }

\* what the code guarantees: stats and resetStats hold the shared lock
\* only, each counter is loaded and stored atomically, and so each counter
\* reported is the old one or zero, whatever the other is
EachCounterOldOrZero ==
    /\ mu.w = ""
    /\ \A g \in Callers : StatsReturned(g) =>
          /\ DOMAIN report[g].stats = DOMAIN report[g].before
          /\ \A k \in DOMAIN report[g].stats :
                /\ report[g].stats[k].hit \in { report[g].before[k].hit, 0 }
                /\ report[g].stats[k].miss \in { report[g].before[k].miss, 0 }

\* a reader and a resetter are inside the cache at the same time
SharedLockHeldByBoth ==
    \E g, h \in Callers :
        /\ { g, h } \subseteq mu.r
        /\ call[g].op = "stats" /\ call[h].op = "resetStats"

(***************************************************************************)
(* Caching disabled.                                                       *)
(***************************************************************************)
\* the three caches are built with the same o.EnableCaching, and a disabled
\* service has nothing in its maps and nothing to report
DisabledStaysEmpty ==
    /\ \A f \in AllCaches : ds[f].disabled = ds.sdsCache.disabled
    /\ ~CachingEnabled =>
          /\ \A f \in AllCaches : ds[f].cache = << >>
          /\ Reported = {}
          /\ resp # NoResponse => ~resp.cached

\* with caching disabled a request is never answered from stored data: it
\* is refused as the current registry and rules demand, or it computes its
\* response from them
DisabledLookupMisses ==
    \A u \in URLs : (~CachingEnabled /\ RequestFor(u)) =>
        IF Recomputed(u).status = StatusOK
        THEN \E w \in Workers : Computes(w, u) /\ out'[w] = Recomputed(u).body
        ELSE /\ resp'.status = Recomputed(u).status
             /\ resp'.body = Recomputed(u).body

\* with caching disabled a store changes nothing, and the response is the
\* one the request computed
DisabledStoreIsNoOp ==
    \A w \in Workers, u \in URLs :
        (~CachingEnabled /\ Computing(w, u) /\ pc'[w] = "idle") =>
            ds' = ds /\ resp' = writeResponse(u, out[w], FALSE)

\* C36: with caching disabled every lookup is a miss and every store a
\* no-op: the cache maps stay empty after any sequence of requests and
\* change events, GET /cache_stats reports no keys, and every request is
\* recomputed from the current registry.
C36_DisabledCache ==
    /\ []DisabledStaysEmpty
    /\ [][DisabledLookupMisses /\ DisabledStoreIsNoOp]_vars

\* a disabled service answers, as its third operation, a request for the
\* hosts of hello after an instance was deleted and the handler returned:
\* one host is left
C36_Witness ==
    /\ ~CachingEnabled /\ HandlerReturned /\ 2 \notin instances /\ nops = 3
    /\ resp = writeResponse(SdsURL(<< "hello", "http" >>),
                            Recomputed(SdsURL(<< "hello", "http" >>)).body, FALSE)
    /\ Len(resp.body.hosts.elems) = 1

(***************************************************************************)
(* Construction: order of registration and failure.                        *)
(***************************************************************************)
\* the kinds of the handlers constructor c has appended to hs, in order
KindsAppended(hs, c) ==
    LET own == SelectSeq(hs, LAMBDA h : h.of = c)
    IN [ i \in 1..Len(own) |-> own[i].kind ]

ServiceInstanceRulePolicy == << "service", "instance", RouteRule, DestinationPolicy >>

\* the handlers of a constructor are the first ones of the order service,
\* instance, RouteRule, DestinationPolicy
RegisteredInOrder ==
    \A c \in Constructors :
        KindsAppended(handlers, c) = SubSeq(ServiceInstanceRulePolicy, 1, building[c].n)

\* a constructor returns its object and no error after the four
\* registrations, or no object and the error of the registration that
\* failed
ReturnsObjectOrError ==
    \A c \in Constructors : building[c].ret.returned =>
        IF building[c].ret.err = "nil"
        THEN building[c].ret.out = c /\ building[c].n = 4
        ELSE /\ building[c].ret.out = "nil"
             /\ building[c].n < 4
             /\ building[c].ret.err =
                   AppendError(c, ServiceInstanceRulePolicy[building[c].n + 1])

\* a constructor that has returned registers nothing more, and no handler
\* is ever taken off the controller
NothingAfterReturn ==
    /\ \A c \in Constructors : building[c].ret.returned =>
          /\ building'[c] = building[c]
          /\ KindsAppended(handlers', c) = KindsAppended(handlers, c)
    /\ Len(handlers') >= Len(handlers)
    /\ SubSeq(handlers', 1, Len(handlers)) = handlers

\* C37: NewDiscoveryService and NewWatcher register their handlers in the
\* order service, instance, RouteRule, DestinationPolicy; when a
\* registration fails they return its error and no service or watcher,
\* make no later registration and leave the handlers already appended in
\* place.
C37_RegistrationOrder ==
    /\ [](RegisteredInOrder /\ ReturnsObjectOrError)
    /\ [][NothingAfterReturn]_vars

\* NewWatcher has failed at its RouteRule registration, its service and
\* instance handlers are still appended, and NewDiscoveryService, called
\* on the same controller afterwards, has returned its service
C37_Witness ==
    /\ building["NewWatcher"] =
          [ n |-> 2, ret |-> ReturnErr(AppendError("NewWatcher", RouteRule)) ]
    /\ building["NewDiscoveryService"].ret = ReturnOut("NewDiscoveryService")
    /\ KindsAppended(SubSeq(handlers, 1, 2), "NewWatcher") = << "service", "instance" >>
    /\ Len(handlers) = 6

(***************************************************************************)
(* No initial reload.                                                      *)
(***************************************************************************)
\* nothing has been generated, submitted, written or launched
NothingLaunched ==
    /\ mailbox = None /\ submitted = << >>
    /\ desired = None /\ accepted = None
    /\ launched = << >> /\ children = {} /\ files = << >>
    /\ epoch = 0
    /\ apc \in { "new", "launched", "Idle", "Stopped" }

FirstEpochAfterFirstEvent ==
    /\ nev = 1 /\ ngen = 1
    /\ launched = << [ epoch |-> 0, value |-> submitted[1].value ] >>

(***************************************************************************)
(* What runEnvoy returns.                                                  *)
(***************************************************************************)
RunReturned == run.pc = "returned"

\* the epoch file of the call
RunFile == configFile(ConfigPath, run.epoch)

\* the child of the call is running
ChildRunning == \E ch \in children : ch.epoch = run.epoch

\* C39: runEnvoy returns an error without starting a child when the config
\* is not an envoy Config, having written nothing, and when writing the
\* epoch file fails; otherwise it blocks until the child has exited and
\* returns the error of the child's start or exit, which is nil only for a
\* child that exited with status 0.
C39_RunEnvoyReturns ==
    /\ (RunReturned /\ run.config.type # "*Config") =>
          /\ run.err = UnexpectedConfigType(run.config)
          /\ run.child = NoChild /\ files = << >> /\ run.wrote = "no"
    /\ (RunReturned /\ run.wrote = "failed") =>
          run.err = WriteError /\ run.child = NoChild
    /\ (RunReturned /\ run.config.type = "*Config" /\ run.wrote = "ok") =>
          /\ files[RunFile] = run.config.value
          /\ run.child = NoChild => run.err = StartError
          /\ run.child # NoChild =>
                /\ run.child \in { Exited(s) : s \in ExitStatuses }
                /\ run.err = IF run.child.status = 0 THEN NoError
                             ELSE ExitError(run.child.status)
    /\ RunReturned => (run.err = NoError <=> run.child = Exited(0))
    /\ RunReturned => ~ChildRunning
    /\ ChildRunning => run.pc = "running" /\ run.child = Running

\* the call for epoch 2 has returned the exit error of a child killed by a
\* signal, with the epoch file written
C39_Witness ==
    /\ RunReturned /\ run.epoch = 2
    /\ run.child = Exited(-1)
    /\ run.err = ExitError(-1)
    /\ RunFile \in DOMAIN files

(***************************************************************************)
(* Port numbers.                                                           *)
(***************************************************************************)
\* the port numbers a Service may declare
PortRange == 0..65535

\* C40: every Service that Service.Validate accepts has all its port
\* numbers within 0..65535: a port below 0 or above 65535 is reported as
\* an error.
C40_PortsInRange ==
    vfn = "Service.Validate" =>
        /\ ~Rejected => \A i \in 1..Len(vmsg.Ports) : vmsg.Ports[i].Port \in PortRange
        /\ \A i \in 1..Len(vmsg.Ports) :
              vmsg.Ports[i].Port \notin PortRange => Reports("Invalid service port value %d for %q")

\* what Service.Validate does: it reports the ports below 0, one error
\* each, and no port above 65535
NegativePortsReported ==
    vfn = "Service.Validate" =>
        Cardinality({ i \in 1..Len(verrs) :
                        verrs[i].text = "Invalid service port value %d for %q" })
            = Cardinality({ i \in 1..Len(vmsg.Ports) : vmsg.Ports[i].Port < 0 })

\* a service with port 65536 has been accepted
PortAboveRangeAccepted ==
    /\ vfn = "Service.Validate" /\ ~Rejected
    /\ \E i \in 1..Len(vmsg.Ports) : vmsg.Ports[i].Port = 65536

====
